---------------------------- MODULE Spec2Model ----------------------------
(***************************************************************************)
(* Model of the Multi-Pilot extension: the chat participant that fans one  *)
(* query out to several language models (extension.ts), the ChatWebView    *)
(* sink that shows one slot per model (chatWebview.ts) and the storage of  *)
(* the persisted model selection (storageService.ts).                      *)
(*                                                                         *)
(* JavaScript runs one job at a time.  A host event (a promise of the host *)
(* settling: selectChatModels, sendRequest, the next item of a response    *)
(* stream, a panel message, a new chat request) is delivered only when the *)
(* microtask queue is empty; the continuations the program itself creates  *)
(* with await run from the microtask queue mq, in FIFO order, one per      *)
(* step.                                                                   *)
(*                                                                         *)
(* Text is a sequence of pieces.  Text the program searches or splits      *)
(* (identifiers, error messages, response text) is held one character per  *)
(* piece; fixed wording the program only emits is held as whole pieces.    *)
(***************************************************************************)
EXTENDS Naturals, Sequences, FiniteSets, TLC

\* ------------------------------------------------------------------ bounds
\* Host events of one behaviour beyond those one turn needs to finish: further
\* chat requests, fragments, failures, cancellations and panel events, together.
MaxEvents == 2
\* Longest persisted selection handed to getAIModels on its own.
MaxSel == 2
\* Size of the large host catalogue used to exercise the cap.
BigHost == 7
\* MaxEvents of the specification with the large host catalogue.
CapEvents == 1
\* Host events of the specification of consecutive turns on one model.
CtxEvents == 4
\* Host events of the specification of the panel with two targets.
PanelEvents == 4

\* Calls of the specification of the storage service.
StoreOps == 3

\* Host events of the specification of the panel's inbound messages.
InboundEvents == 3

\* Host events of the specification with fairness.
LiveEvents == 2

\* Host events of the specification of the Enhance Prompt command.
EnhEvents == 3

\* Host events of the specification of overlapping turns.
OverlapEvents == 4

\* ------------------------------------------------------------------- text
\* JavaScript null / undefined, kept apart from every text.
Null == <<"\\null">>

Upper == <<"A", "B", "C", "D", "E", "F", "G", "H", "I", "J", "K", "L", "M",
           "N", "O", "P", "Q", "R", "S", "T", "U", "V", "W", "X", "Y", "Z">>

Lower == <<"a", "b", "c", "d", "e", "f", "g", "h", "i", "j", "k", "l", "m",
           "n", "o", "p", "q", "r", "s", "t", "u", "v", "w", "x", "y", "z">>

\* String.prototype.toLowerCase, one character at a time.
ToLowerCase(s) ==
    [i \in 1..Len(s) |->
        IF \E j \in 1..Len(Upper) : Upper[j] = s[i]
        THEN Lower[CHOOSE j \in 1..Len(Upper) : Upper[j] = s[i]]
        ELSE s[i]]

\* String.prototype.includes: pat occurs in s as a contiguous run.
Includes(s, pat) ==
    \E i \in 0..Len(s) :
        /\ i + Len(pat) <= Len(s)
        /\ SubSeq(s, i + 1, i + Len(pat)) = pat

\* id.split('/').pop(): what follows the last '/', the whole text without one.
SplitPop(s) ==
    LET slashes == {i \in 1..Len(s) : s[i] = "/"}
        last == IF slashes = {} THEN 0
                ELSE CHOOSE i \in slashes : \A j \in slashes : j <= i
    IN SubSeq(s, last + 1, Len(s))

\* a || b on strings: the empty string is falsy.
OrElse(a, b) == IF a = <<>> \/ a = Null THEN b ELSE a

\* `${x}` in a template literal: null prints as the four letters null.
TemplateStr(x) == IF x = Null THEN <<"n", "u", "l", "l">> ELSE x

Digits == <<"0", "1", "2", "3", "4", "5", "6", "7", "8", "9">>

\* `${n}` for the one-digit numbers the model meets.
NumStr(n) == <<Digits[n + 1]>>

\* ------------------------------------------------------------ model catalogue
GptId == <<"g", "p", "t", "-", "4", "o">>

GeminiId == <<"g", "e", "m", "i", "n", "i", "-", "2", ".", "0", "-",
              "f", "l", "a", "s", "h", "-", "0", "0", "1">>

DEFAULT_AI_MODELS ==
    << [id |-> GptId, name |-> <<"GPT-4o">>, displayName |-> <<"GPT-4o">>,
        matchPatterns |-> << <<"gpt">>, <<"openai">>, <<"4o">> >>],
       [id |-> GeminiId, name |-> <<"Gemini Flash">>,
        displayName |-> <<"Gemini 2.0 Flash">>,
        matchPatterns |-> << <<"gemini">>, <<"google">>, <<"flash">> >>] >>

\* DEFAULT_AI_MODELS.find(m => m.id === modelId): index of the first match, 0 if none.
FindById(models, modelId) ==
    IF \E i \in 1..Len(models) : models[i].id = modelId
    THEN CHOOSE i \in 1..Len(models) :
            /\ models[i].id = modelId
            /\ \A j \in 1..(i - 1) : models[j].id /= modelId
    ELSE 0

\* NewModelConfig without the "|| modelId" fallback for an empty tail.
NewModelConfig_NoFallback(modelId) ==
    [id |-> modelId, name |-> SplitPop(modelId), displayName |-> SplitPop(modelId),
     matchPatterns |-> <<ToLowerCase(modelId)>>]

\* The else branch of getAIModels: a configuration made up for an unknown id.
NewModelConfig(modelId) ==
    LET displayName == OrElse(SplitPop(modelId), modelId)
    IN [id |-> modelId, name |-> displayName, displayName |-> displayName,
        matchPatterns |-> <<ToLowerCase(modelId)>>]

\* One iteration of the for loop of getAIModels.
ModelConfigFor(modelId) ==
    LET i == FindById(DEFAULT_AI_MODELS, modelId)
    IN IF i /= 0 THEN DEFAULT_AI_MODELS[i] ELSE NewModelConfig(modelId)

\* ---------------------------------------------------------------- storage
\* selectedModels.json: absent, unreadable, parsed without the key, or holding ids.
FileAbsent == [state |-> "absent", selectedModels |-> <<>>]

\* readFileSync or JSON.parse throws.
FileCorrupt == [state |-> "corrupt", selectedModels |-> <<>>]

\* The parsed object has no selectedModels.
FileNoKey == [state |-> "nokey", selectedModels |-> <<>>]

FileWith(ids) == [state |-> "ok", selectedModels |-> ids]

\* JSON text is a sequence of pieces: the punctuation marks, the key, and the
\* characters of the strings between their quotes (the white space of the
\* indentation is left out).
JSONKey == "\"selectedModels\""

\* A string writer that leaves the backslash as it is.
JSONQuote_BackslashRaw(text) ==
    LET RECURSIVE Esc(_)
        Esc(t) == IF t = <<>> THEN <<>>
                  ELSE (IF Head(t) = "\"" THEN <<"\\", "\"">>
                        ELSE IF Head(t) = "\n" THEN <<"\\", "n">>
                        ELSE <<Head(t)>>) \o Esc(Tail(t))
    IN <<"\"">> \o Esc(text) \o <<"\"">>

\* JSON.stringify of a string: quotes around it, and the quote, the backslash
\* and the line feed escaped.
JSONQuote(text) ==
    LET RECURSIVE Esc(_)
        Esc(t) == IF t = <<>> THEN <<>>
                  ELSE (IF Head(t) = "\"" THEN <<"\\", "\"">>
                        ELSE IF Head(t) = "\\" THEN <<"\\", "\\">>
                        ELSE IF Head(t) = "\n" THEN <<"\\", "n">>
                        ELSE <<Head(t)>>) \o Esc(Tail(t))
    IN <<"\"">> \o Esc(text) \o <<"\"">>

\* JSON.stringify({ selectedModels: models }, null, 2)
JSONStringify(models) ==
    LET RECURSIVE Elements(_)
        Elements(m) == IF m = <<>> THEN <<>>
                       ELSE IF Len(m) = 1 THEN JSONQuote(m[1])
                       ELSE JSONQuote(m[1]) \o <<",">> \o Elements(Tail(m))
    IN <<"{", JSONKey, ":", "[">> \o Elements(models) \o <<"]", "}">>

\* The strings of a JSON array from piece i on; mode tells what may come next:
\* "first" a string or the end, "string" a string, "sep" a comma or the end,
\* "in" the inside of a string, "esc" the character after a backslash.
RECURSIVE ParseElements(_, _, _, _, _)
ParseElements(text, i, mode, current, acc) ==
    IF i > Len(text) THEN [ok |-> FALSE, value |-> <<>>, next |-> i]
    ELSE LET c == text[i]
         IN IF mode = "in"
            THEN IF c = "\"" THEN ParseElements(text, i + 1, "sep", <<>>, Append(acc, current))
                 ELSE IF c = "\\" THEN ParseElements(text, i + 1, "esc", current, acc)
                 ELSE IF c = "\n" THEN [ok |-> FALSE, value |-> <<>>, next |-> i]
                 ELSE ParseElements(text, i + 1, "in", Append(current, c), acc)
            ELSE IF mode = "esc"
            THEN IF c \in {"\"", "\\", "/"}
                 THEN ParseElements(text, i + 1, "in", Append(current, c), acc)
                 ELSE IF c = "n"
                 THEN ParseElements(text, i + 1, "in", Append(current, "\n"), acc)
                 ELSE [ok |-> FALSE, value |-> <<>>, next |-> i]
            ELSE IF c = "\"" /\ mode \in {"first", "string"}
            THEN ParseElements(text, i + 1, "in", <<>>, acc)
            ELSE IF c = "," /\ mode = "sep"
            THEN ParseElements(text, i + 1, "string", <<>>, acc)
            ELSE IF c = "]" /\ mode \in {"first", "sep"}
            THEN [ok |-> TRUE, value |-> acc, next |-> i + 1]
            ELSE [ok |-> FALSE, value |-> <<>>, next |-> i]

\* JSON.parse of the file's text, as far as loadSelectedModels looks at it.
JSONParse(text) ==
    IF text = <<"{", "}">>
    THEN [ok |-> TRUE, hasKey |-> FALSE, selectedModels |-> <<>>]
    ELSE IF Len(text) >= 4 /\ SubSeq(text, 1, 4) = <<"{", JSONKey, ":", "[">>
    THEN LET r == ParseElements(text, 5, "first", <<>>, <<>>)
         IN IF r.ok /\ r.next = Len(text) /\ text[Len(text)] = "}"
            THEN [ok |-> TRUE, hasKey |-> TRUE, selectedModels |-> r.value]
            ELSE [ok |-> FALSE, hasKey |-> FALSE, selectedModels |-> <<>>]
    ELSE [ok |-> FALSE, hasKey |-> FALSE, selectedModels |-> <<>>]

\* selectedModels.json with the given text, as loadSelectedModels will find it.
FileOf(text) ==
    LET parsed == JSONParse(text)
    IN IF ~parsed.ok THEN FileCorrupt
       ELSE IF ~parsed.hasKey THEN FileNoKey
       ELSE FileWith(parsed.selectedModels)

\* StorageService.saveSelectedModels: the file after the call; a write that
\* throws is reported and leaves the file as it was.
saveSelectedModels(file, models, writeThrows) ==
    IF writeThrows THEN file ELSE FileOf(JSONStringify(models))

\* StorageService.loadSelectedModels.
loadSelectedModels(file) ==
    IF file.state = "ok" THEN file.selectedModels ELSE <<>>

\* getAIModels without the early return of the defaults.
getAIModels_NoDefaults(file) ==
    [i \in 1..Len(loadSelectedModels(file)) |-> ModelConfigFor(loadSelectedModels(file)[i])]

\* getAIModels: the defaults for an empty selection, else one entry per id.
getAIModels(file) ==
    LET selectedModelIds == loadSelectedModels(file)
    IN IF Len(selectedModelIds) = 0
       THEN DEFAULT_AI_MODELS
       ELSE [i \in 1..Len(selectedModelIds) |-> ModelConfigFor(selectedModelIds[i])]


\* ------------------------------------------------------------ error texts
\* A thrown value: null/undefined, or an object with optional message and code.
ErrNullish == [nullish |-> TRUE, message |-> Null, code |-> Null]

ErrObject(message, code) == [nullish |-> FALSE, message |-> message, code |-> code]

NotSupportedMessage ==
    <<"M", "o", "d", "e", "l", " ", "i", "s", " ", "n", "o", "t", " ",
      "s", "u", "p", "p", "o", "r", "t", "e", "d">>

NotSupportedCode ==
    <<"m", "o", "d", "e", "l", "_", "n", "o", "t", "_",
      "s", "u", "p", "p", "o", "r", "t", "e", "d">>

Failed400Message ==
    <<"R", "e", "q", "u", "e", "s", "t", " ", "F", "a", "i", "l", "e", "d", ":",
      " ", "4", "0", "0">>

CompatibilityText1 ==
    <<"Model compatibility error: The model is not supported for this request. This typically happens when the model doesn't support the requested operation or the API version isn't compatible.">>

CompatibilityText2 ==
    <<"Model compatibility error: The selected model is not supported. Please try a different model or check your configuration.">>

RequestErrorText ==
    <<"Request error: The API returned a 400 error. This typically means the request format wasn't compatible with the model.">>

\* A classification that looks at the code before the message.
getModelErrorMessage_CodeFirst(error) ==
    IF error.code = NotSupportedCode
    THEN CompatibilityText2
    ELSE IF error.message /= Null /\ Includes(error.message, NotSupportedMessage)
    THEN CompatibilityText1
    ELSE IF error.message /= Null /\ Includes(error.message, Failed400Message)
    THEN RequestErrorText
    ELSE <<"Error: ">> \o OrElse(error.message, <<"Unknown error occurred">>)

\* getModelErrorMessage: error?.message and error?.code read null through a nullish value.
getModelErrorMessage(error) ==
    IF error.message /= Null /\ Includes(error.message, NotSupportedMessage)
    THEN CompatibilityText1
    ELSE IF error.code = NotSupportedCode
    THEN CompatibilityText2
    ELSE IF error.message /= Null /\ Includes(error.message, Failed400Message)
    THEN RequestErrorText
    ELSE <<"Error: ">> \o OrElse(error.message, <<"Unknown error occurred">>)

\* error.code, error.param, error.type read without ?. in the catch block:
\* reading a property of null or undefined throws a TypeError.
CatchBlockThrows(error) == error.nullish

\* ---------------------------------------------------------- chat message
\* A condition that only null fails.
Truthy_NotNull(x) == x /= Null

\* A string in a condition: null and the empty string are falsy.
Truthy(x) == x /= Null /\ x /= <<>>

\* userMessageText of the chat handler.
ComposeMessage(prompt, lastQ, lastR) ==
    IF Truthy(lastQ) \/ Truthy(lastR)
    THEN <<"### Role ###\n",
           "You are an expert AI assistant. Your task is to provide detailed, beginner-friendly explanations.\n",
           "### Conversation History ###\n",
           "Previous Question: ">> \o TemplateStr(lastQ) \o
         <<"\n", "Previous Response: ">> \o TemplateStr(lastR) \o
         <<"\n", "### Current Question ###\n">> \o prompt
    ELSE <<"### Role ###\n",
           "You are an expert AI assistant. Your task is to provide detailed, beginner-friendly explanations.\n",
           "### Current Question ###\n">> \o prompt

\* responseText.toLowerCase().includes('error:')
ErrorMarker == <<"e", "r", "r", "o", "r", ":">>

LooksLikeError(responseText) == Includes(ToLowerCase(responseText), ErrorMarker)

\* The messages the handler writes to the chat response stream.
NoModelsMarkdown ==
    <<"No language models available. Please check your configuration.">>

ProcessingMarkdown(n) ==
    <<"Processing your request using ", NumStr(n)[1],
      " AI model(s). Please check the results in the panel to the right.">>

ParallelErrorMarkdown ==
    <<"An error occurred while processing requests in parallel. Please try again.">>

\* modelsToUse = selectedModels.slice(0, 6)
MaxModels == 6

\* selectedModels used whole, without the slice.
Slice_NoCap(s, n) == s

Slice(s, n) == SubSeq(s, 1, IF Len(s) < n THEN Len(s) ELSE n)

\* modelName of the handler: the display name of the configuration with the
\* handle's id, else "Model <index + 1>: <tail of the id>" (position is index + 1).
ModelName(aiModels, model, position) ==
    LET i == FindById(aiModels, model.id)
    IN IF i /= 0
       THEN aiModels[i].displayName
       ELSE <<"Model ", NumStr(position)[1], ": ">> \o OrElse(SplitPop(model.id), model.id)

\* -------------------------------------------------------- prompt templates
\* editorContext.text.substring(0, 2000) and editorContext.text.length > 2000
PreviewLimit == 2000

\* text.substring(0, n)
Substring(text, n) == SubSeq(text, 1, IF Len(text) < n THEN Len(text) ELSE n)

ContentTruncatedMarker == <<"\n... (content truncated)">>

TruncatedMarker == <<"\n... (truncated)">>

\* A preview that marks a text of exactly the limit as truncated.
Preview_MarkerAtLimit(text, marker) ==
    Substring(text, PreviewLimit) \o (IF Len(text) >= PreviewLimit THEN marker ELSE <<>>)

\* The file preview of the context-aware templates: the first 2000 characters,
\* then the marker when there are more.
Preview(text, marker) ==
    Substring(text, PreviewLimit) \o (IF Len(text) > PreviewLimit THEN marker ELSE <<>>)

\* ADVANCED_ENHANCEMENT_PROMPT of promptTemplates: the fixed wording as pieces
\* (in all templates [fence] stands for the three backquotes of a code fence).
ADVANCED_ENHANCEMENT_PROMPT(originalPrompt) ==
    <<"\n### System Role ###\nYou are an expert prompt engineer specializing in optimizing prompts for AI models. Your goal is to transform user prompts into highly effective, clear, and actionable instructions.\n\n### Enhancement Guidelines ###\n1. **Clarity**: Remove ambiguity and make instructions crystal clear\n2. **Specificity**: Add relevant details and context where needed\n3. **Structure**: Organize the prompt logically with clear sections\n4. **Completeness**: Ensure all necessary information is included\n5. **Optimization**: Structure for maximum AI comprehension and performance\n6. **Intent Preservation**: Maintain the original goal and meaning\n\n### Original Prompt ###\n">>
    \o originalPrompt
    \o <<"\n\n### Task ###\nTransform the above prompt into an enhanced version that will produce superior results from AI models. Focus on:\n- Assign a clear role to the AI\n- Identify the most effective prompt engineering techniques eg: chain-of-thought, few-shot learning, etc.\n- Adding helpful context and specifications\n- Structuring information clearly\n- Making requirements explicit\n- Optimizing for AI understanding\n\n**Important**: Return ONLY the enhanced prompt without any explanations, prefixes, or additional commentary.">>

\* LITE_ENHANCEMENT_PROMPT of promptTemplates.
LITE_ENHANCEMENT_PROMPT(originalPrompt) ==
    <<"You are an expert prompt engineer. Transform user prompts into precise, self-contained, and actionable instructions.\n\nRules\n\nEnsure clarity, conciseness, and unambiguous wording.\nAdd relevant context and specifications where needed.\nOrganize logically with clear roles and steps.\nAssign appropriate AI roles for the task.\nApply effective prompt engineering techniques (chain-of-thought, few-shot learning, etc.).\nPreserve original intent but improve specificity and completeness.\nOptimize for maximum AI comprehension and performance.\n\nOriginal Prompt\n\n">>
    \o originalPrompt
    \o <<"\n\nTask\n\nRewrite the prompt into a refined version that is clear, well-structured, and directly usable by AI models.">>

\* CONTEXT_AWARE_ENHANCEMENT_PROMPT of promptTemplates.
CONTEXT_AWARE_ENHANCEMENT_PROMPT(originalPrompt, editorContext) ==
    <<"\n### System Role ###\nYou are an expert prompt engineer specializing in optimizing prompts for AI models. Your goal is to transform user prompts into highly effective, clear, and actionable instructions using the provided context.\n\n### Context Information ###\n**Language**: ">>
    \o editorContext.language
    \o <<"\n**File Content Preview**: \n[fence]">>
    \o editorContext.language
    \o <<"\n">>
    \o Preview(editorContext.text, ContentTruncatedMarker)
    \o <<"\n[fence]\n\n### Enhancement Guidelines ###\n1. **Context Awareness**: Use the file context to understand the domain and purpose\n2. **Language-Specific**: Consider the programming language or file type when enhancing\n3. **Clarity**: Remove ambiguity and make instructions crystal clear\n4. **Specificity**: Add relevant details based on the context provided\n5. **Structure**: Organize the prompt logically with clear sections\n6. **Completeness**: Ensure all necessary information is included\n7. **Optimization**: Structure for maximum AI comprehension and performance\n8. **Intent Preservation**: Maintain the original goal and meaning\n\n### Original Prompt ###\n">>
    \o originalPrompt
    \o <<"\n\n### Task ###\nTransform the above prompt into an enhanced version that will produce superior results from AI models. Consider the context from the active file to:\n- Add relevant technical details and specifications\n- Include appropriate examples based on the file content if needed\n- Use domain-specific terminology correctly\n- Structure the request for the specific context (coding, documentation, etc.)\n- Assign a clear role to the AI based on the context using the file content\n- Identify the most effective prompt engineering techniques for this domain\n\n**Important**: Return ONLY the enhanced prompt without any explanations, prefixes, or additional commentary.">>

\* LITE_CONTEXT_AWARE_ENHANCEMENT_PROMPT of promptTemplates.
LITE_CONTEXT_AWARE_ENHANCEMENT_PROMPT(originalPrompt, editorContext) ==
    <<"You are an expert prompt engineer. Transform user prompts into precise, self-contained, and actionable instructions using the given context.\n\nContext\n\nLanguage: ">>
    \o editorContext.language
    \o <<"\nFile Preview:\n[fence]">>
    \o editorContext.language
    \o <<"\n">>
    \o Preview(editorContext.text, TruncatedMarker)
    \o <<"\n[fence]\n\nRules\n\nUse file context and language to refine the prompt.\nEnsure clarity, conciseness, and unambiguous wording.\nAdd technical/domain-specific details when relevant.\nOrganize logically with clear roles/steps.\nPreserve original intent but improve specificity and completeness.\nOptimize for maximum AI comprehension.\n\nOriginal Prompt\n\n">>
    \o originalPrompt
    \o <<"\n\nTask\n\nRewrite the prompt into a refined version that is clear, context-aware, domain-optimized, and directly usable.">>

\* The two templates promptService imports under the names PRO_...: the
\* templates above that go with the lite ones.
PRO_ENHANCEMENT_PROMPT(originalPrompt) == ADVANCED_ENHANCEMENT_PROMPT(originalPrompt)

PRO_CONTEXT_AWARE_ENHANCEMENT_PROMPT(originalPrompt, editorContext) ==
    CONTEXT_AWARE_ENHANCEMENT_PROMPT(originalPrompt, editorContext)

\* ------------------------------------------------------------- ChatWebView
\* marked.parse: the markup of a markdown text, kept with the text it renders.
marked(markdown) == [kind |-> "html", src |-> markdown]

\* ChatWebView.formatMarkdown: an empty text gives the inline typing indicator.
formatMarkdown(markdown) ==
    IF markdown = <<>>
    THEN [kind |-> "typing-inline", src |-> <<>>]
    ELSE marked(markdown)

\* The loading animation startModelResponse stores.
TypingBlock == [kind |-> "typing-block", src |-> <<>>]

\* A Map.set on responses (a function from model name to stored markup).
MapSet(m, k, v) == [x \in DOMAIN m \cup {k} |-> IF x = k THEN v ELSE m[x]]

EmptyMap == [x \in {} |-> TypingBlock]

\* A push that does not look whether the name is listed.
PushName_Always(names, modelName) == Append(names, modelName)

\* if (!this.modelNames.includes(modelName)) this.modelNames.push(modelName)
PushName(names, modelName) ==
    IF \E i \in 1..Len(names) : names[i] = modelName
    THEN names
    ELSE Append(names, modelName)

\* renderModelResponse: what a column shows for a name.
WaitingBlock == [kind |-> "waiting", src |-> <<>>]

renderModelResponse(v, modelName) ==
    IF modelName \in DOMAIN v.responses THEN v.responses[modelName] ELSE WaitingBlock

\* renderModelColumns: one column per listed name, marked when hidden.
renderModelColumns(v) ==
    [i \in 1..Len(v.modelNames) |->
        [model |-> v.modelNames[i],
         hidden |-> v.modelNames[i] \in v.hiddenModels,
         content |-> renderModelResponse(v, v.modelNames[i])]]

\* getWebviewContent: the page built from the fields, as far as it depends on
\* them (the user's message and the columns).
getWebviewContent(v) ==
    [userMessage |-> v.lastUserMessage, columns |-> renderModelColumns(v)]

\* The page of a panel that does not exist.
NoContent == [userMessage |-> <<>>, columns |-> <<>>]

\* updateWebview: the page of the panel, if there is one, is built anew.
updateWebview(v) ==
    IF v.panel THEN [v EXCEPT !.html = getWebviewContent(v)] ELSE v

\* The singleton as constructed: no panel, nothing stored. (html is the page
\* the panel shows.)
NewChatWebView ==
    [panel |-> FALSE, messageListenerRegistered |-> FALSE, listeners |-> 0,
     lastUserMessage |-> <<>>, responses |-> EmptyMap, modelNames |-> <<>>,
     hiddenModels |-> {}, storedHidden |-> {}, created |-> 0, livePanels |-> 0,
     html |-> NoContent]

\* createOrShowWebview with setupMessageListener: a live panel is revealed, and
\* otherwise a panel is created, which gets a listener unless the flag is set.
\* (created and livePanels only count the panels created and those not yet
\* disposed; listeners counts the listeners of the panel this.panel refers to.)
createOrShowWebview(v) ==
    IF v.panel
    THEN v
    ELSE [v EXCEPT !.panel = TRUE,
                   !.html = getWebviewContent(v),
                   !.created = @ + 1,
                   !.livePanels = @ + 1,
                   !.listeners = IF v.messageListenerRegistered THEN 0 ELSE 1,
                   !.messageListenerRegistered = TRUE]

\* A dispose callback that leaves the listener flag as it is.
onDidDispose_KeepsFlag(v) ==
    [v EXCEPT !.panel = FALSE, !.html = NoContent, !.livePanels = @ - 1,
              !.listeners = 0]

\* panel.onDidDispose
onDidDispose(v) ==
    [v EXCEPT !.panel = FALSE, !.messageListenerRegistered = FALSE,
              !.html = NoContent, !.livePanels = @ - 1, !.listeners = 0]

setUserMessage(v, message) == updateWebview([v EXCEPT !.lastUserMessage = message])

\* updateModelResponse up to its await: the name is listed at once.
updateModelResponseBegin(v, modelName) ==
    [v EXCEPT !.modelNames = PushName(v.modelNames, modelName)]

\* updateModelResponse after its await: the formatted text is stored.
\* An update that is dropped when the slot holds a text it does not continue.
updateModelResponseEnd_FirstWins(v, modelName, markdown) ==
    IF /\ modelName \in DOMAIN v.responses
       /\ v.responses[modelName].kind = "html"
       /\ ~(/\ Len(v.responses[modelName].src) <= Len(markdown)
            /\ SubSeq(markdown, 1, Len(v.responses[modelName].src))
                  = v.responses[modelName].src)
    THEN updateWebview(v)
    ELSE updateWebview(
             [v EXCEPT !.responses = MapSet(v.responses, modelName, formatMarkdown(markdown))])

\* An update that stores its text only while a panel exists.
updateModelResponseEnd_NeedsPanel(v, modelName, markdown) ==
    IF v.panel
    THEN updateWebview(
             [v EXCEPT !.responses = MapSet(v.responses, modelName, formatMarkdown(markdown))])
    ELSE v

\* (storedHidden only records which names had a text stored while hidden.)
updateModelResponseEnd(v, modelName, markdown) ==
    updateWebview(
        [v EXCEPT !.responses = MapSet(v.responses, modelName, formatMarkdown(markdown)),
                  !.storedHidden = IF modelName \in v.hiddenModels
                                   THEN @ \cup {modelName} ELSE @])

\* A toggle that flips the visibility whatever it is asked for.
toggleModelVisibility_Flip(v, modelName, isVisible) ==
    updateWebview([v EXCEPT !.hiddenModels = IF modelName \in @ THEN @ \ {modelName}
                                             ELSE @ \cup {modelName}])

toggleModelVisibility(v, modelName, isVisible) ==
    updateWebview(
        [v EXCEPT !.hiddenModels = IF isVisible THEN @ \ {modelName}
                                   ELSE @ \cup {modelName}])

startModelResponse(v, modelName) ==
    updateWebview([v EXCEPT !.modelNames = PushName(v.modelNames, modelName),
                            !.responses = MapSet(v.responses, modelName, TypingBlock)])

\* A clear that also forgets the names.
clearChat_DropsNames(v) ==
    updateWebview(
        [v EXCEPT !.lastUserMessage = <<>>, !.responses = EmptyMap, !.storedHidden = {},
                  !.modelNames = <<>>])

clearChat(v) ==
    updateWebview(
        [v EXCEPT !.lastUserMessage = <<>>, !.responses = EmptyMap, !.storedHidden = {}])

\* A reset that also empties the user message.
resetModels_ClearsUserMessage(v) ==
    updateWebview(
        [v EXCEPT !.modelNames = <<>>, !.responses = EmptyMap, !.storedHidden = {},
                  !.lastUserMessage = <<>>])

resetModels(v) ==
    updateWebview(
        [v EXCEPT !.modelNames = <<>>, !.responses = EmptyMap, !.storedHidden = {}])

\* startModelResponse for each name in turn (the forEach of the handler).
RECURSIVE StartAll(_, _)
StartAll(v, names) ==
    IF names = <<>> THEN v
    ELSE StartAll(startModelResponse(v, Head(names)), Tail(names))

\* ------------------------------------------------------------------ state
VARIABLES
    storageFile,        \* selectedModels.json of the StorageService
    hostModels,         \* ids of the models the host offers, in host order
    lastUserQuery,      \* closure variable of registerMultiModelChatParticipant
    lastModelResponse,  \* closure variable of registerMultiModelChatParticipant
    turns,              \* one record per invocation of the chat handler
    tasks,              \* one record per element of modelRequests, all turns
    mq,                 \* the microtask queue: continuations ready to run
    chatWebView,        \* the fields of the ChatWebView singleton
    budget,             \* host events the behaviour may still take
    call                \* a pure function applied on its own: argument and result

vars == <<storageFile, hostModels, lastUserQuery, lastModelResponse, turns, tasks,
          mq, chatWebView, budget, call>>

\* ------------------------------------------------------------ input sets
SlashM1 == <<"a", "/", "m">>

SlashM2 == <<"B", "/", "m">>

TrailingSlash == <<"x", "/">>

\* Catalogues the host may offer in the chat specification.
HostCatalogs ==
    { <<>>, <<GptId>>, <<GptId, GeminiId>>, <<SlashM1, SlashM2>> }

\* Contents of selectedModels.json in the chat specification.
StoredFiles ==
    { FileAbsent, FileWith(<<SlashM1, SlashM2>>), FileWith(<<GptId, GptId>>) }

Prompts == { <<"h", "i">>, <<"w", "h", "y">> }

\* Fragments a response stream may yield: "Err" then "OR:" spell the marker.
Fragments == { <<"o", "k">>, <<"E", "r", "r">>, <<"O", "R", ":">>, <<>> }

\* Values a backend call may throw in the chat specification.
BackendErrors ==
    { ErrNullish,
      ErrObject(<<"b", "o", "o", "m">>, Null),
      ErrObject(Null, NotSupportedCode) }

\* The m-th identifier of the large catalogue: "m1", "m2", ...
BigId(m) == <<"m", Digits[m + 1]>>

BigCatalog == [m \in 1..BigHost |-> BigId(m)]

\* ------------------------------------------------------------------ host
\* The handles of the host's models; h tells two models of one id apart.
Handles == [h \in 1..Len(hostModels) |-> [id |-> hostModels[h], h |-> h]]

\* A lookup that ignores its selector.
MatchesOf_AnyModel(id) == Handles

\* vscode.lm.selectChatModels({ id }): the host's models of that id, in host order.
MatchesOf(id) == SelectSeq(Handles, LAMBDA m : m.id = id)

\* -------------------------------------------------------------- microtasks
Job(type, turn, task, name, text) ==
    [type |-> type, turn |-> turn, task |-> task, name |-> name, text |-> text]

\* The continuation an updateModelResponse call leaves behind: formatMarkdown
\* awaits marked.parse for a non-empty text and returns at once for an empty one.
UpdateJob(task, modelName, response) ==
    Job(IF response = <<>> THEN "set" ELSE "format", tasks[task].turn, task,
        modelName, response)

Settled(k) == tasks[k].pc \in {"fulfilled", "rejected"}

TasksOf(t) == {k \in 1..Len(tasks) : tasks[k].turn = t}

\* ------------------------------------------------------------------- Init
NewTurn(prompt) ==
    [prompt |-> prompt,
     userMessageText |-> ComposeMessage(prompt, lastUserQuery, lastModelResponse),
     context |-> [lastQuestion |-> lastUserQuery, lastAnswer |-> lastModelResponse],
     aiModels |-> getAIModels(storageFile),
     selectedModels |-> <<>>, lookups |-> <<>>, usedFallback |-> FALSE,
     pc |-> "getAIModels", i |-> 0, markdown |-> <<>>, cancelled |-> FALSE,
     n |-> 0, remaining |-> 0, all |-> "none", overlap |-> FALSE, cleared |-> FALSE]

IdleCall == [fn |-> "none", arg |-> FileAbsent, done |-> FALSE, result |-> <<>>]

InitProgram ==
    /\ lastUserQuery = Null
    /\ lastModelResponse = Null
    /\ turns = <<>>
    /\ tasks = <<>>
    /\ mq = <<>>
    /\ chatWebView = NewChatWebView

Init ==
    /\ InitProgram
    /\ storageFile \in StoredFiles
    /\ hostModels \in HostCatalogs
    /\ budget = MaxEvents
    /\ call = IdleCall

\* ----------------------------------------------------------- chat handler
\* A chat request arrives: the handler runs to its first await (getAIModels).
StartTurn(prompt) ==
    /\ mq = <<>>
    /\ turns /= <<>> => budget > 0
    /\ \A t \in 1..Len(turns) :
          turns[t].pc \in {"returned", "threw"} \/ turns[t].cancelled
    /\ turns' = Append(turns, NewTurn(prompt))
    /\ mq' = <<Job("handler", Len(turns) + 1, 0, <<>>, <<>>)>>
    /\ budget' = IF turns = <<>> THEN budget ELSE budget - 1
    /\ UNCHANGED <<storageFile, hostModels, lastUserQuery, lastModelResponse, tasks,
                   chatWebView, call>>

\* await getAIModels(context) resumes: the loop asks the host for the first id.
HandlerResumes ==
    /\ mq /= <<>>
    /\ Head(mq).type = "handler"
    /\ turns' = [turns EXCEPT ![Head(mq).turn].pc = "select", ![Head(mq).turn].i = 1]
    /\ mq' = Tail(mq)
    /\ UNCHANGED <<storageFile, hostModels, lastUserQuery, lastModelResponse, tasks,
                   chatWebView, budget, call>>

\* A request that carries the bare prompt.
RequestMessage_RawPrompt(T, k) == T.prompt

\* [userMessage] of model.sendRequest for the k-th model of the turn with record
\* T: the one message built before the models were looked up.
RequestMessage(T, k) == T.userMessageText

\* Everything from createOrShowWebview to await Promise.all(modelRequests), for
\* turn t whose record, selection loop finished, is T.
Dispatch(t, T) ==
    LET modelsToUse == Slice(T.selectedModels, MaxModels)
        names == [k \in 1..Len(modelsToUse) |->
                     ModelName(T.aiModels, modelsToUse[k], k)]
        v1 == resetModels(createOrShowWebview(chatWebView))
        v2 == setUserMessage(StartAll(v1, names), T.prompt)
        v3 == StartAll(v2, names)
        busy == \E k \in 1..Len(tasks) : ~Settled(k)
        newTasks == [k \in 1..Len(modelsToUse) |->
                       [turn |-> t, index |-> k, model |-> modelsToUse[k],
                        modelName |-> names[k], sent |-> RequestMessage(T, k),
                        responseText |-> <<>>,
                        pc |-> "sendRequest", fragments |-> 0,
                        failed |-> FALSE, error |-> ErrObject(Null, Null)]]
    IN /\ chatWebView' = v3
       /\ tasks' = tasks \o newTasks
       /\ turns' = [u \in 1..Len(turns) |->
                      IF u = t
                      THEN [T EXCEPT !.pc = "join",
                                     !.markdown = Append(@,
                                        ProcessingMarkdown(Len(T.selectedModels))),
                                     !.n = Len(modelsToUse),
                                     !.remaining = Len(modelsToUse),
                                     !.all = "pending",
                                     !.overlap = busy]
                      ELSE [turns[u] EXCEPT !.overlap = @ \/ turns[u].pc = "join"
                                                        \/ \E k \in TasksOf(u) : ~Settled(k)]]

\* The handler after one iteration of the selection loop of turn t.
AfterLookup(t, T) ==
    IF T.i < Len(T.aiModels)
    THEN /\ turns' = [turns EXCEPT ![t] = [T EXCEPT !.i = @ + 1]]
         /\ UNCHANGED <<tasks, chatWebView>>
    ELSE IF T.selectedModels = <<>>
    THEN /\ turns' = [turns EXCEPT ![t] = [T EXCEPT !.pc = "fallback"]]
         /\ UNCHANGED <<tasks, chatWebView>>
    ELSE Dispatch(t, T)

\* selectChatModels({ id }) settles for the id the loop of turn t is at.
SelectChatModels(t, throws) ==
    /\ mq = <<>>
    /\ turns[t].pc = "select"
    /\ throws => budget > 0
    /\ budget' = IF throws THEN budget - 1 ELSE budget
    /\ LET T == turns[t]
           found == MatchesOf(T.aiModels[T.i].id)
           outcome == IF throws THEN "throws"
                      ELSE IF found = <<>> THEN "empty" ELSE "found"
           T2 == [T EXCEPT !.lookups = Append(@, outcome),
                           !.selectedModels =
                               IF outcome = "found" THEN Append(@, found[1]) ELSE @]
       IN AfterLookup(t, T2)
    /\ UNCHANGED <<storageFile, hostModels, lastUserQuery, lastModelResponse, mq, call>>

\* A fallback without the check for an empty result.
FallbackReturns_NoEmptyCheck(t) ==
    /\ mq = <<>>
    /\ turns[t].pc = "fallback"
    /\ Dispatch(t, [turns[t] EXCEPT !.selectedModels = Handles, !.usedFallback = TRUE])
    /\ UNCHANGED <<storageFile, hostModels, lastUserQuery, lastModelResponse, mq,
                   budget, call>>

\* selectChatModels() without a selector returns every model of the host.
FallbackReturns(t) ==
    /\ mq = <<>>
    /\ turns[t].pc = "fallback"
    /\ LET T == [turns[t] EXCEPT !.selectedModels = Handles, !.usedFallback = TRUE]
       IN IF T.selectedModels = <<>>
          THEN /\ turns' = [turns EXCEPT ![t] =
                              [T EXCEPT !.pc = "returned",
                                        !.markdown = Append(@, NoModelsMarkdown)]]
               /\ UNCHANGED <<tasks, chatWebView>>
          ELSE Dispatch(t, T)
    /\ UNCHANGED <<storageFile, hostModels, lastUserQuery, lastModelResponse, mq,
                   budget, call>>

\* selectChatModels() without a selector throws: nothing catches it.
FallbackThrows(t) ==
    /\ mq = <<>>
    /\ turns[t].pc = "fallback"
    /\ budget > 0
    /\ turns' = [turns EXCEPT ![t].pc = "threw", ![t].usedFallback = TRUE]
    /\ budget' = budget - 1
    /\ UNCHANGED <<storageFile, hostModels, lastUserQuery, lastModelResponse, tasks,
                   mq, chatWebView, call>>

\* ------------------------------------------------------ per-model request
\* await model.sendRequest(...) resolves: the for await loop asks for an item.
SendRequestResolves(k) ==
    /\ mq = <<>>
    /\ tasks[k].pc = "sendRequest"
    /\ tasks' = [tasks EXCEPT ![k].pc = "stream"]
    /\ UNCHANGED <<storageFile, hostModels, lastUserQuery, lastModelResponse, turns,
                   mq, chatWebView, budget, call>>

\* A request without its try/catch: the thrown value rejects the task's promise
\* and nothing is written to the panel.
Catch_NoIsolation(k, error) ==
    /\ tasks' = [tasks EXCEPT ![k].failed = TRUE, ![k].error = error,
                              ![k].pc = "rejected"]
    /\ mq' = <<Job("allReject", tasks[k].turn, k, <<>>, <<>>)>>
    /\ budget' = budget - 1
    /\ UNCHANGED <<storageFile, hostModels, lastUserQuery, lastModelResponse, turns,
                   chatWebView, call>>

\* A catch block that also keeps the partial text as the last response.
Catch_StoresPartial(k, error) ==
    /\ chatWebView' = updateModelResponseBegin(chatWebView, tasks[k].modelName)
    /\ tasks' = [tasks EXCEPT ![k].failed = TRUE, ![k].error = error,
                              ![k].pc = IF CatchBlockThrows(error)
                                        THEN "rejected" ELSE "fulfilled"]
    /\ mq' = << UpdateJob(k, tasks[k].modelName, getModelErrorMessage(error)),
                Job(IF CatchBlockThrows(error) THEN "allReject" ELSE "allResolve",
                    tasks[k].turn, k, <<>>, <<>>) >>
    /\ budget' = budget - 1
    /\ lastModelResponse' = tasks[k].responseText
    /\ UNCHANGED <<storageFile, hostModels, lastUserQuery, turns, call>>

\* A catch block that shows the error text after the text received so far.
Catch_AppendsError(k, error) ==
    /\ chatWebView' = updateModelResponseBegin(chatWebView, tasks[k].modelName)
    /\ tasks' = [tasks EXCEPT ![k].failed = TRUE, ![k].error = error,
                              ![k].pc = IF CatchBlockThrows(error)
                                        THEN "rejected" ELSE "fulfilled"]
    /\ mq' = << UpdateJob(k, tasks[k].modelName,
                          tasks[k].responseText \o getModelErrorMessage(error)),
                Job(IF CatchBlockThrows(error) THEN "allReject" ELSE "allResolve",
                    tasks[k].turn, k, <<>>, <<>>) >>
    /\ budget' = budget - 1
    /\ UNCHANGED <<storageFile, hostModels, lastUserQuery, lastModelResponse, turns,
                   call>>

\* A catch block after which the request's promise never settles.
Catch_NeverSettles(k, error) ==
    /\ chatWebView' = updateModelResponseBegin(chatWebView, tasks[k].modelName)
    /\ tasks' = [tasks EXCEPT ![k].failed = TRUE, ![k].error = error,
                              ![k].pc = "fulfilled"]
    /\ mq' = << UpdateJob(k, tasks[k].modelName, getModelErrorMessage(error)) >>
    /\ budget' = budget - 1
    /\ UNCHANGED <<storageFile, hostModels, lastUserQuery, lastModelResponse, turns,
                   call>>

\* The catch block of request k for the thrown value error: the error text is
\* sent to the panel, then error.code is read; the async function then settles.
Catch(k, error) ==
    /\ chatWebView' = updateModelResponseBegin(chatWebView, tasks[k].modelName)
    /\ tasks' = [tasks EXCEPT ![k].failed = TRUE, ![k].error = error,
                              ![k].pc = IF CatchBlockThrows(error)
                                        THEN "rejected" ELSE "fulfilled"]
    /\ mq' = << UpdateJob(k, tasks[k].modelName, getModelErrorMessage(error)),
                Job(IF CatchBlockThrows(error) THEN "allReject" ELSE "allResolve",
                    tasks[k].turn, k, <<>>, <<>>) >>
    /\ budget' = budget - 1
    /\ UNCHANGED <<storageFile, hostModels, lastUserQuery, lastModelResponse, turns,
                   call>>

\* await model.sendRequest(...) rejects.
SendRequestRejects(k, error) ==
    /\ mq = <<>>
    /\ tasks[k].pc = "sendRequest"
    /\ budget > 0
    /\ Catch(k, error)

\* A loop body that also keeps the text so far as the last response.
StreamYields_StoresRunning(k, fragment) ==
    /\ mq = <<>>
    /\ tasks[k].pc = "stream"
    /\ budget > 0
    /\ LET responseText == tasks[k].responseText \o fragment
       IN /\ tasks' = [tasks EXCEPT ![k].responseText = responseText,
                                    ![k].fragments = @ + 1]
          /\ chatWebView' = updateModelResponseBegin(chatWebView, tasks[k].modelName)
          /\ mq' = <<UpdateJob(k, tasks[k].modelName, responseText)>>
          /\ lastModelResponse' = responseText
    /\ budget' = budget - 1
    /\ UNCHANGED <<storageFile, hostModels, lastUserQuery, turns, call>>

\* A loop body that sends the panel the fragment instead of the text so far.
StreamYields_FragmentOnly(k, fragment) ==
    /\ mq = <<>>
    /\ tasks[k].pc = "stream"
    /\ budget > 0
    /\ tasks' = [tasks EXCEPT ![k].responseText = @ \o fragment,
                              ![k].fragments = @ + 1]
    /\ chatWebView' = updateModelResponseBegin(chatWebView, tasks[k].modelName)
    /\ mq' = <<UpdateJob(k, tasks[k].modelName, fragment)>>
    /\ budget' = budget - 1
    /\ UNCHANGED <<storageFile, hostModels, lastUserQuery, lastModelResponse, turns,
                   call>>

\* The stream yields a fragment: one pass of the for await body.
StreamYields(k, fragment) ==
    /\ mq = <<>>
    /\ tasks[k].pc = "stream"
    /\ budget > 0
    /\ LET responseText == tasks[k].responseText \o fragment
       IN /\ tasks' = [tasks EXCEPT ![k].responseText = responseText,
                                    ![k].fragments = @ + 1]
          /\ chatWebView' = updateModelResponseBegin(chatWebView, tasks[k].modelName)
          /\ mq' = <<UpdateJob(k, tasks[k].modelName, responseText)>>
    /\ budget' = budget - 1
    /\ UNCHANGED <<storageFile, hostModels, lastUserQuery, lastModelResponse, turns,
                   call>>

\* A completion that stores whatever text it got.
ContextAfter_StoreAlways(responseText, previous) == responseText

\* What the code after the loop stores as lastModelResponse.
ContextAfter(responseText, previous) ==
    IF LooksLikeError(responseText) THEN previous ELSE responseText

\* A completion that keeps the answer of the first target of the turn to finish.
StreamEnds_FirstWriterWins(k) ==
    /\ mq = <<>>
    /\ tasks[k].pc = "stream"
    /\ lastModelResponse' =
          IF lastModelResponse = turns[tasks[k].turn].context.lastAnswer
          THEN ContextAfter(tasks[k].responseText, lastModelResponse)
          ELSE lastModelResponse
    /\ tasks' = [tasks EXCEPT ![k].pc = "fulfilled"]
    /\ mq' = <<Job("allResolve", tasks[k].turn, k, <<>>, <<>>)>>
    /\ UNCHANGED <<storageFile, hostModels, lastUserQuery, turns, chatWebView,
                   budget, call>>

\* The stream ends: the error check, the context update, the function returns.
StreamEnds(k) ==
    /\ mq = <<>>
    /\ tasks[k].pc = "stream"
    /\ lastModelResponse' = ContextAfter(tasks[k].responseText, lastModelResponse)
    /\ tasks' = [tasks EXCEPT ![k].pc = "fulfilled"]
    /\ mq' = <<Job("allResolve", tasks[k].turn, k, <<>>, <<>>)>>
    /\ UNCHANGED <<storageFile, hostModels, lastUserQuery, turns, chatWebView,
                   budget, call>>

\* The stream fails while the loop waits for an item.
StreamThrows(k, error) ==
    /\ mq = <<>>
    /\ tasks[k].pc = "stream"
    /\ budget > 0
    /\ Catch(k, error)

\* The host fires the cancellation token of turn t; the handler never reads it.
Cancel(t) ==
    /\ mq = <<>>
    /\ turns[t].pc \notin {"returned", "threw"}
    /\ ~turns[t].cancelled
    /\ budget > 0
    /\ turns' = [turns EXCEPT ![t].cancelled = TRUE]
    /\ budget' = budget - 1
    /\ UNCHANGED <<storageFile, hostModels, lastUserQuery, lastModelResponse, tasks,
                   mq, chatWebView, call>>

\* ------------------------------------------------------------- microtasks
\* formatMarkdown resumes after await marked.parse and returns the markup.
RunFormat ==
    /\ mq /= <<>>
    /\ Head(mq).type = "format"
    /\ mq' = Append(Tail(mq), [Head(mq) EXCEPT !.type = "set"])
    /\ UNCHANGED <<storageFile, hostModels, lastUserQuery, lastModelResponse, turns,
                   tasks, chatWebView, budget, call>>

\* updateModelResponse resumes after await formatMarkdown and stores the markup.
RunSet ==
    /\ mq /= <<>>
    /\ Head(mq).type = "set"
    /\ chatWebView' = updateModelResponseEnd(chatWebView, Head(mq).name, Head(mq).text)
    /\ mq' = Tail(mq)
    /\ UNCHANGED <<storageFile, hostModels, lastUserQuery, lastModelResponse, turns,
                   tasks, budget, call>>

\* Promise.all sees one of its promises fulfilled.
RunAllResolve ==
    /\ mq /= <<>>
    /\ Head(mq).type = "allResolve"
    /\ LET t == Head(mq).turn
           last == turns[t].remaining = 1 /\ turns[t].all = "pending"
       IN /\ turns' = [turns EXCEPT ![t].remaining = @ - 1,
                                    ![t].all = IF last THEN "fulfilled" ELSE @]
          /\ mq' = IF last THEN Append(Tail(mq), Job("join", t, 0, <<>>, <<>>))
                   ELSE Tail(mq)
    /\ UNCHANGED <<storageFile, hostModels, lastUserQuery, lastModelResponse, tasks,
                   chatWebView, budget, call>>

\* Promise.all sees one of its promises rejected: it rejects at once.
RunAllReject ==
    /\ mq /= <<>>
    /\ Head(mq).type = "allReject"
    /\ LET t == Head(mq).turn
           first == turns[t].all = "pending"
       IN /\ turns' = [turns EXCEPT ![t].all = IF first THEN "rejected" ELSE @]
          /\ mq' = IF first THEN Append(Tail(mq), Job("join", t, 0, <<>>, <<>>))
                   ELSE Tail(mq)
    /\ UNCHANGED <<storageFile, hostModels, lastUserQuery, lastModelResponse, tasks,
                   chatWebView, budget, call>>

\* await Promise.all(modelRequests) resumes: the try/catch around it, then return.
RunJoin ==
    /\ mq /= <<>>
    /\ Head(mq).type = "join"
    /\ LET t == Head(mq).turn
       IN turns' = [turns EXCEPT ![t].pc = "returned",
                                 ![t].markdown = IF turns[t].all = "rejected"
                                                 THEN Append(@, ParallelErrorMarkdown)
                                                 ELSE @]
    /\ mq' = Tail(mq)
    /\ UNCHANGED <<storageFile, hostModels, lastUserQuery, lastModelResponse, tasks,
                   chatWebView, budget, call>>

\* ------------------------------------------------------------------ panel
\* The panel posts { command: "clearChat" }.
ClearChatMessage ==
    /\ mq = <<>>
    /\ chatWebView.panel
    /\ chatWebView.listeners > 0
    /\ budget > 0
    /\ chatWebView' = clearChat(chatWebView)
    /\ turns' = [t \in 1..Len(turns) |->
                    [turns[t] EXCEPT !.cleared = @ \/ turns[t].all /= "none"]]
    /\ budget' = budget - 1
    /\ UNCHANGED <<storageFile, hostModels, lastUserQuery, lastModelResponse, tasks,
                   mq, call>>

\* The panel posts { command: "toggleModelVisibility", modelName, isVisible }.
ToggleVisibilityMessage(modelName, isVisible) ==
    /\ mq = <<>>
    /\ chatWebView.panel
    /\ chatWebView.listeners > 0
    /\ budget > 0
    /\ chatWebView' = toggleModelVisibility(chatWebView, modelName, isVisible)
    /\ budget' = budget - 1
    /\ UNCHANGED <<storageFile, hostModels, lastUserQuery, lastModelResponse, turns,
                   tasks, mq, call>>

\* The user closes the panel.
DisposePanel ==
    /\ mq = <<>>
    /\ chatWebView.livePanels > 0
    /\ budget > 0
    /\ chatWebView' = onDidDispose(chatWebView)
    /\ budget' = budget - 1
    /\ UNCHANGED <<storageFile, hostModels, lastUserQuery, lastModelResponse, turns,
                   tasks, mq, call>>

\* ------------------------------------------------------------------- Next
\* The chat participant: the handler, its requests and their continuations.
NextChat ==
    \/ \E prompt \in Prompts : StartTurn(prompt)
    \/ HandlerResumes
    \/ \E t \in 1..Len(turns), throws \in BOOLEAN : SelectChatModels(t, throws)
    \/ \E t \in 1..Len(turns) : FallbackReturns(t)
    \/ \E t \in 1..Len(turns) : FallbackThrows(t)
    \/ \E k \in 1..Len(tasks) : SendRequestResolves(k)
    \/ \E k \in 1..Len(tasks), error \in BackendErrors : SendRequestRejects(k, error)
    \/ \E k \in 1..Len(tasks), fragment \in Fragments : StreamYields(k, fragment)
    \/ \E k \in 1..Len(tasks) : StreamEnds(k)
    \/ \E k \in 1..Len(tasks), error \in BackendErrors : StreamThrows(k, error)
    \/ \E t \in 1..Len(turns) : Cancel(t)
    \/ RunFormat
    \/ RunSet
    \/ RunAllResolve
    \/ RunAllReject
    \/ RunJoin

\* What the user does to the panel.
NextPanel ==
    \/ ClearChatMessage
    \/ \E i \in 1..Len(chatWebView.modelNames), isVisible \in BOOLEAN :
          ToggleVisibilityMessage(chatWebView.modelNames[i], isVisible)
    \/ DisposePanel

Next == NextChat \/ NextPanel

Spec == Init /\ [][Next]_vars

\* The chat and its panel with the two models gpt-4o and gemini on the host.
InitPanel ==
    /\ InitProgram
    /\ storageFile = FileAbsent
    /\ hostModels = <<GptId, GeminiId>>
    /\ budget = PanelEvents
    /\ call = IdleCall

\* The prompt of the turns of the panel specification (its wording has no
\* part in what the panel hides).
PanelPrompts == { <<"h", "i">> }

\* Turns whose requests do not fail and are not cancelled, and the user at
\* the check boxes and the clear button of the panel.
NextVisibility ==
    \/ \E prompt \in PanelPrompts : StartTurn(prompt)
    \/ HandlerResumes
    \/ \E t \in 1..Len(turns) : SelectChatModels(t, FALSE)
    \/ \E k \in 1..Len(tasks) : SendRequestResolves(k)
    \/ \E k \in 1..Len(tasks), fragment \in Fragments : StreamYields(k, fragment)
    \/ \E k \in 1..Len(tasks) : StreamEnds(k)
    \/ RunFormat
    \/ RunSet
    \/ RunAllResolve
    \/ RunJoin
    \/ ClearChatMessage
    \/ \E i \in 1..Len(chatWebView.modelNames), isVisible \in BOOLEAN :
          ToggleVisibilityMessage(chatWebView.modelNames[i], isVisible)

SpecPanel == InitPanel /\ [][NextVisibility]_vars

\* ------------------------------------------- more than six models on offer
\* The host offers BigHost models; the selection is absent (none of the defaults
\* is on offer, so the unfiltered fallback supplies them all) or names them all.
InitCap ==
    /\ InitProgram
    /\ storageFile \in {FileAbsent, FileWith(BigCatalog)}
    /\ hostModels = BigCatalog
    /\ budget = CapEvents
    /\ call = IdleCall

SpecCap == InitCap /\ [][NextChat]_vars

\* ------------------------------------- consecutive turns on a single model
\* The host offers gpt-4o alone and nothing is stored: every turn has one
\* target, and CtxEvents host events allow three turns in a row.
InitCtx ==
    /\ InitProgram
    /\ storageFile = FileAbsent
    /\ hostModels = <<GptId>>
    /\ budget = CtxEvents
    /\ call = IdleCall

SpecCtx == InitCtx /\ [][NextChat]_vars

\* The chat with two models or none on the host, for the properties that need
\* fairness.
InitLive ==
    /\ InitProgram
    /\ storageFile = FileAbsent
    /\ hostModels \in { <<>>, <<GptId, GeminiId>> }
    /\ budget = LiveEvents
    /\ call = IdleCall

\* The continuations the event loop has queued.
Microtask ==
    HandlerResumes \/ RunFormat \/ RunSet \/ RunAllResolve \/ RunAllReject \/ RunJoin

\* The backend of request k answers the request, or ends or fails its stream.
BackendSettles(k) ==
    /\ k \in 1..Len(tasks)
    /\ \/ SendRequestResolves(k)
       \/ \E error \in BackendErrors : SendRequestRejects(k, error)
       \/ StreamEnds(k)
       \/ \E error \in BackendErrors : StreamThrows(k, error)

\* Some backend with an unsettled request takes its next step.
SomeBackendSettles == \E k \in 1..Len(tasks) : BackendSettles(k)

\* The event loop runs every queued continuation, and the backends go on
\* until every stream has ended or failed. (Each request takes two such steps
\* at most, so that no backend can be passed over for ever.)
SpecLive ==
    /\ InitLive
    /\ [][NextChat]_vars
    /\ WF_vars(Microtask)
    /\ WF_vars(SomeBackendSettles)

\* ------------------------------------------------------- overlapping turns
\* gpt-4o and gemini on the host, nothing stored: a turn is cancelled while its
\* requests run and the next turn starts; a lookup that throws leaves the
\* next turn with fewer targets than the one before.
InitOverlap ==
    /\ InitProgram
    /\ storageFile = FileAbsent
    /\ hostModels = <<GptId, GeminiId>>
    /\ budget = OverlapEvents
    /\ call = IdleCall

\* The one fragment the streams of this specification yield.
OverlapFragments == { <<"o", "k">> }

NextOverlap ==
    \/ \E prompt \in PanelPrompts : StartTurn(prompt)
    \/ HandlerResumes
    \/ \E t \in 1..Len(turns), throws \in BOOLEAN : SelectChatModels(t, throws)
    \/ \E t \in 1..Len(turns) : FallbackReturns(t)
    \/ \E k \in 1..Len(tasks) : SendRequestResolves(k)
    \/ \E k \in 1..Len(tasks), fragment \in OverlapFragments : StreamYields(k, fragment)
    \/ \E k \in 1..Len(tasks) : StreamEnds(k)
    \/ \E t \in 1..Len(turns) : Cancel(t)
    \/ RunFormat
    \/ RunSet
    \/ RunAllResolve
    \/ RunJoin

SpecOverlap == InitOverlap /\ [][NextOverlap]_vars

\* --------------------------------------------------- Enhance Prompt command
\* String.prototype.trim: white space off both ends.
WhiteSpace == {" ", "\n", "\t", "\r"}

RECURSIVE Trim(_)
Trim(text) ==
    IF text = <<>> THEN text
    ELSE IF Head(text) \in WhiteSpace THEN Trim(Tail(text))
    ELSE IF text[Len(text)] \in WhiteSpace THEN Trim(SubSeq(text, 1, Len(text) - 1))
    ELSE text

\* fileName.split(/[\\\/]/).pop(): what follows the last slash or backslash.
BaseName(path) ==
    LET seps == {i \in 1..Len(path) : path[i] \in {"/", "\\"}}
        last == IF seps = {} THEN 0 ELSE CHOOSE i \in seps : \A j \in seps : j <= i
    IN SubSeq(path, last + 1, Len(path))

\* No active text editor.
NoEditor == [open |-> FALSE, text |-> <<>>, selection |-> <<>>, languageId |-> <<>>,
             fileName |-> <<>>]

\* What getEditorContext returns when there is no editor.
NoContext == [present |-> FALSE, text |-> <<>>, language |-> <<>>, fileName |-> <<>>]

\* EnhancePromptHandler.getEditorContext: the document, or the selection when it
\* is not blank.
getEditorContext(editor) ==
    IF ~editor.open THEN NoContext
    ELSE [present |-> TRUE,
          text |-> IF editor.selection /= <<>> /\ Trim(editor.selection) /= <<>>
                   THEN editor.selection ELSE editor.text,
          language |-> editor.languageId,
          fileName |-> OrElse(BaseName(editor.fileName), <<"untitled">>)]

\* editorContext || { text: '', language: 'plaintext', fileName: 'untitled' }
ContextOrDefault(editorContext) ==
    IF editorContext.present THEN editorContext
    ELSE [present |-> TRUE, text |-> <<>>, language |-> <<"plaintext">>,
          fileName |-> <<"untitled">>]

\* `${error}` for a thrown null and for a thrown Error.
ErrorToString(error) ==
    IF error.nullish THEN <<"null">>
    ELSE IF error.message = Null \/ error.message = <<>> THEN <<"Error">>
    ELSE <<"Error: ">> \o error.message

\* PromptService.createComparisonDocument (headings without their emoji).
OriginalHeading ==
    "# Multi-Pilot Prompt Enhancement Comparison\n\n\n## Original Prompt\n\n[fence]\n"

LiteHeading == "\n[fence]\n\n\n## Lite Enhancement Result\n\n\n[fence]\n"

ProHeading == "\n[fence]\n\n\n## Pro Enhancement Result\n\n[fence]\n"

DocumentEnd == "\n[fence]\n"

createComparisonDocument(originalPrompt, liteResult, proResult, editorContext) ==
    <<OriginalHeading>> \o originalPrompt \o <<LiteHeading>> \o liteResult
    \o <<ProHeading>> \o proResult \o <<DocumentEnd>>

\* One processEnhancement call before it starts.
IdleEnhancement ==
    [pc |-> "idle", sent |-> <<>>, text |-> <<>>, failed |-> FALSE, result |-> <<>>]

\* The command before it is run: the PromptService singleton has no model.
IdleCommand ==
    [fn |-> "enhance", arg |-> [clipboard |-> <<>>, editor |-> NoEditor],
     done |-> FALSE, result |-> <<>>, pc |-> "idle", defaultModel |-> FALSE,
     textToEnhance |-> <<>>, editorContext |-> NoContext,
     lite |-> IdleEnhancement, pro |-> IdleEnhancement, first |-> "none",
     warning |-> FALSE, errorMessage |-> FALSE, shown |-> <<>>,
     clipboard |-> <<>>]

\* Clipboard texts and editors the command may meet.
Clipboards == { <<>>, <<" ", "\n">>, <<"f", "i", "x">> }

Editors ==
    { NoEditor,
      [open |-> TRUE, text |-> <<" ", "\n">>, selection |-> <<>>,
       languageId |-> <<"t", "s">>, fileName |-> <<"s", "/", "a", ".", "t", "s">>],
      [open |-> TRUE, text |-> <<"x", "=", "1">>, selection |-> <<" ">>,
       languageId |-> <<"t", "s">>, fileName |-> <<"s", "\\", "a", ".", "t", "s">>],
      [open |-> TRUE, text |-> <<"x", "=", "1">>, selection |-> <<"x">>,
       languageId |-> <<"t", "s">>, fileName |-> <<"s", "/">>] }

\* Chunks a response stream may yield to processEnhancement.
Chunks == { <<" ", "o", "k">>, <<"\n">>, <<"g", "o">> }

\* Values a backend call may throw at processEnhancement.
EnhErrors == { ErrNullish, ErrObject(<<"b", "o", "o", "m">>, Null) }

Variants == {"lite", "pro"}

\* The command is run: handle() up to await clipboard.readText().
RunCommand(clipboard, editor) ==
    /\ call.fn = "enhance"
    /\ call.pc \in {"idle", "done"}
    /\ call.pc = "done" => budget > 0
    /\ budget' = IF call.pc = "done" THEN budget - 1 ELSE budget
    /\ call' = [IdleCommand EXCEPT !.arg = [clipboard |-> clipboard, editor |-> editor],
                                   !.clipboard = clipboard,
                                   !.defaultModel = call.defaultModel,
                                   !.editorContext = getEditorContext(editor),
                                   !.pc = "clipboard"]
    /\ UNCHANGED <<storageFile, hostModels, lastUserQuery, lastModelResponse, turns,
                   tasks, mq, chatWebView>>

\* enhancePromptWithBothTemplates from the two templates to the two
\* processEnhancement calls, each waiting for its sendRequest.
StartBoth(c) ==
    LET context == ContextOrDefault(c.editorContext)
        litePrompt == LITE_CONTEXT_AWARE_ENHANCEMENT_PROMPT(c.textToEnhance, context)
        proPrompt == PRO_CONTEXT_AWARE_ENHANCEMENT_PROMPT(c.textToEnhance, context)
    IN [c EXCEPT !.pc = "await",
                 !.lite = [IdleEnhancement EXCEPT !.pc = "sendRequest", !.sent = litePrompt],
                 !.pro = [IdleEnhancement EXCEPT !.pc = "sendRequest", !.sent = proPrompt]]

\* clipboard.readText() settles: getTextToEnhance, the check for a blank text,
\* then enhancePromptWithBothTemplates up to its first await.
ClipboardRead(throws) ==
    /\ call.fn = "enhance"
    /\ call.pc = "clipboard"
    /\ throws => budget > 0
    /\ budget' = IF throws THEN budget - 1 ELSE budget
    /\ LET clipboardText == IF throws THEN <<>> ELSE call.clipboard
           textToEnhance == IF Trim(clipboardText) /= <<>> THEN clipboardText ELSE <<>>
           c == [call EXCEPT !.textToEnhance = textToEnhance]
       IN call' = IF Trim(textToEnhance) = <<>>
                  THEN [c EXCEPT !.warning = TRUE, !.pc = "finally"]
                  ELSE IF ~c.defaultModel
                  THEN [c EXCEPT !.pc = "initialize"]
                  ELSE StartBoth(c)
    /\ UNCHANGED <<storageFile, hostModels, lastUserQuery, lastModelResponse, turns,
                   tasks, mq, chatWebView>>

\* A service that, left without a model, returns the bare prompt (as
\* enhancePromptWithDefaultModel does) instead of a comparison document.
InitializeDefaultModel_BarePrompt(throws) ==
    /\ call.fn = "enhance"
    /\ call.pc = "initialize"
    /\ throws => budget > 0
    /\ budget' = IF throws THEN budget - 1 ELSE budget
    /\ call' = IF ~throws /\ hostModels /= <<>>
               THEN StartBoth([call EXCEPT !.defaultModel = TRUE])
               ELSE [call EXCEPT !.pc = "show", !.result = call.textToEnhance]
    /\ UNCHANGED <<storageFile, hostModels, lastUserQuery, lastModelResponse, turns,
                   tasks, mq, chatWebView>>

\* initializeDefaultModel settles: selectChatModels() returned or threw.
InitializeDefaultModel(throws) ==
    /\ call.fn = "enhance"
    /\ call.pc = "initialize"
    /\ throws => budget > 0
    /\ budget' = IF throws THEN budget - 1 ELSE budget
    /\ call' = IF ~throws /\ hostModels /= <<>>
               THEN StartBoth([call EXCEPT !.defaultModel = TRUE])
               ELSE [call EXCEPT
                       !.pc = "show",
                       !.result = createComparisonDocument(
                                      call.textToEnhance, call.textToEnhance,
                                      call.textToEnhance,
                                      ContextOrDefault(call.editorContext))]
    /\ UNCHANGED <<storageFile, hostModels, lastUserQuery, lastModelResponse, turns,
                   tasks, mq, chatWebView>>

\* processEnhancement of variant v: await sendRequest resolves.
EnhSendResolves(v) ==
    /\ call.fn = "enhance"
    /\ call[v].pc = "sendRequest"
    /\ call' = [call EXCEPT ![v].pc = "stream"]
    /\ UNCHANGED <<storageFile, hostModels, lastUserQuery, lastModelResponse, turns,
                   tasks, mq, chatWebView, budget>>

\* The catch block of processEnhancement of variant v.
EnhCatch(v, error) ==
    /\ budget > 0
    /\ budget' = budget - 1
    /\ call' = [call EXCEPT
                  ![v].pc = "settled",
                  ![v].failed = TRUE,
                  ![v].result = <<"Enhancement failed: ">> \o ErrorToString(error),
                  !.first = IF @ = "none" THEN v ELSE @]
    /\ UNCHANGED <<storageFile, hostModels, lastUserQuery, lastModelResponse, turns,
                   tasks, mq, chatWebView>>

EnhSendRejects(v, error) ==
    /\ call.fn = "enhance"
    /\ call[v].pc = "sendRequest"
    /\ EnhCatch(v, error)

\* The stream of variant v yields a chunk.
EnhChunk(v, chunk) ==
    /\ call.fn = "enhance"
    /\ call[v].pc = "stream"
    /\ budget > 0
    /\ budget' = budget - 1
    /\ call' = [call EXCEPT ![v].text = @ \o chunk]
    /\ UNCHANGED <<storageFile, hostModels, lastUserQuery, lastModelResponse, turns,
                   tasks, mq, chatWebView>>

\* The stream of variant v ends: processEnhancement returns the trimmed text.
EnhStreamEnds(v) ==
    /\ call.fn = "enhance"
    /\ call[v].pc = "stream"
    /\ call' = [call EXCEPT ![v].pc = "settled",
                            ![v].result = Trim(call[v].text),
                            !.first = IF @ = "none" THEN v ELSE @]
    /\ UNCHANGED <<storageFile, hostModels, lastUserQuery, lastModelResponse, turns,
                   tasks, mq, chatWebView, budget>>

EnhStreamThrows(v, error) ==
    /\ call.fn = "enhance"
    /\ call[v].pc = "stream"
    /\ EnhCatch(v, error)

\* A join that fills the slots in the order the two calls finished.
EnhJoin_CompletionOrder ==
    /\ call.fn = "enhance"
    /\ call.pc = "await"
    /\ call.lite.pc = "settled" /\ call.pro.pc = "settled"
    /\ LET other == IF call.first = "lite" THEN "pro" ELSE "lite"
       IN call' = [call EXCEPT
                     !.pc = "show",
                     !.result = createComparisonDocument(
                                    call.textToEnhance, call[call.first].result,
                                    call[other].result,
                                    ContextOrDefault(call.editorContext))]
    /\ UNCHANGED <<storageFile, hostModels, lastUserQuery, lastModelResponse, turns,
                   tasks, mq, chatWebView, budget>>

\* await Promise.all([lite, pro]) resumes once both calls have settled: the
\* comparison document is made of the two results by position.
EnhJoin ==
    /\ call.fn = "enhance"
    /\ call.pc = "await"
    /\ call.lite.pc = "settled" /\ call.pro.pc = "settled"
    /\ call' = [call EXCEPT
                  !.pc = "show",
                  !.result = createComparisonDocument(
                                 call.textToEnhance, call.lite.result, call.pro.result,
                                 ContextOrDefault(call.editorContext))]
    /\ UNCHANGED <<storageFile, hostModels, lastUserQuery, lastModelResponse, turns,
                   tasks, mq, chatWebView, budget>>

\* showEnhancedPrompt settles: the document is shown, or the catch of handle()
\* reports the failure.
EnhShow(throws) ==
    /\ call.fn = "enhance"
    /\ call.pc = "show"
    /\ throws => budget > 0
    /\ budget' = IF throws THEN budget - 1 ELSE budget
    /\ call' = IF throws
               THEN [call EXCEPT !.pc = "finally", !.errorMessage = TRUE]
               ELSE [call EXCEPT !.pc = "finally", !.shown = call.result]
    /\ UNCHANGED <<storageFile, hostModels, lastUserQuery, lastModelResponse, turns,
                   tasks, mq, chatWebView>>

\* The user copies a text while the command is running.
EnhUserCopies(text) ==
    /\ call.fn = "enhance"
    /\ call.pc \notin {"idle", "done"}
    /\ budget > 0
    /\ budget' = budget - 1
    /\ call' = [call EXCEPT !.clipboard = text]
    /\ UNCHANGED <<storageFile, hostModels, lastUserQuery, lastModelResponse, turns,
                   tasks, mq, chatWebView>>

\* A handler that empties the clipboard only after it has shown a document.
EnhFinally_OnlyAfterSuccess ==
    /\ call.fn = "enhance"
    /\ call.pc = "finally"
    /\ call' = [call EXCEPT !.pc = "done", !.done = TRUE,
                            !.clipboard = IF call.warning \/ call.errorMessage
                                          THEN @ ELSE <<>>]
    /\ UNCHANGED <<storageFile, hostModels, lastUserQuery, lastModelResponse, turns,
                   tasks, mq, chatWebView, budget>>

\* finally: await clipboard.writeText('') and handle() returns.
EnhFinally ==
    /\ call.fn = "enhance"
    /\ call.pc = "finally"
    /\ call' = [call EXCEPT !.pc = "done", !.done = TRUE, !.clipboard = <<>>]
    /\ UNCHANGED <<storageFile, hostModels, lastUserQuery, lastModelResponse, turns,
                   tasks, mq, chatWebView, budget>>

InitEnhance ==
    /\ InitProgram
    /\ storageFile = FileAbsent
    /\ hostModels \in {<<>>, <<GptId>>}
    /\ budget = EnhEvents
    /\ call = IdleCommand

NextEnhance ==
    \/ \E clipboard \in Clipboards, editor \in Editors : RunCommand(clipboard, editor)
    \/ \E throws \in BOOLEAN : ClipboardRead(throws)
    \/ \E throws \in BOOLEAN : InitializeDefaultModel(throws)
    \/ \E v \in Variants : EnhSendResolves(v)
    \/ \E v \in Variants, error \in EnhErrors : EnhSendRejects(v, error)
    \/ \E v \in Variants, chunk \in Chunks : EnhChunk(v, chunk)
    \/ \E v \in Variants : EnhStreamEnds(v)
    \/ \E v \in Variants, error \in EnhErrors : EnhStreamThrows(v, error)
    \/ EnhJoin
    \/ \E throws \in BOOLEAN : EnhShow(throws)
    \/ \E text \in Clipboards : EnhUserCopies(text)
    \/ EnhFinally

SpecEnhance == InitEnhance /\ [][NextEnhance]_vars

\* ------------------------------------------------- functions on their own
FnIds ==
    { GptId, GeminiId, SlashM1, TrailingSlash, <<"X">>, <<>>,
      <<"a", "/", "b", "/", "C">> }

RECURSIVE SeqsUpTo(_, _)
SeqsUpTo(S, n) ==
    IF n = 0 THEN {<<>>}
    ELSE LET shorter == SeqsUpTo(S, n - 1)
         IN shorter \cup {Append(q, x) : q \in shorter, x \in S}

FnFiles ==
    {FileAbsent, FileCorrupt, FileNoKey} \cup {FileWith(ids) : ids \in SeqsUpTo(FnIds, MaxSel)}

\* What lastUserQuery and lastModelResponse may hold when a message is composed.
FnContexts == {Null, <<>>, <<"o", "k">>}

FnComposeArgs ==
    [prompt : Prompts \cup {<<>>}, lastQuestion : FnContexts, lastAnswer : FnContexts]

\* Messages and codes of the values getModelErrorMessage is called with: no
\* message, an empty one, and the three patterns alone, embedded and together.
FnErrorMessages ==
    { Null, <<>>, <<"b", "o", "o", "m">>,
      NotSupportedMessage,
      <<"4", "0", "0", " ">> \o NotSupportedMessage \o <<".">>,
      Failed400Message,
      <<"E", ":", " ">> \o Failed400Message \o <<" ", "x">>,
      Failed400Message \o <<" ">> \o NotSupportedMessage,
      <<"m", "o", "d", "e", "l", " ", "i", "s", " ", "n", "o", "t", " ",
        "s", "u", "p", "p", "o", "r", "t", "e", "d">> }

FnErrorCodes == { Null, NotSupportedCode, <<"E", "1">> }

FnErrors ==
    {ErrNullish} \cup {ErrObject(message, code) : message \in FnErrorMessages,
                                                 code \in FnErrorCodes}

\* Editor texts of the lengths around the preview limit, digits in a cycle.
FnText(length) == [i \in 1..length |-> Digits[(i % 10) + 1]]

FnTextLengths == {0, 1, PreviewLimit - 1, PreviewLimit, PreviewLimit + 1, PreviewLimit + 2}

FnTemplateArgs ==
    [variant : {"lite", "pro"},
     originalPrompt : Prompts,
     editorContext : {[text |-> FnText(length), language |-> <<"t", "s">>,
                       fileName |-> <<"a", ".", "t", "s">>] : length \in FnTextLengths}]

InitFn ==
    /\ InitProgram
    /\ storageFile = FileAbsent
    /\ hostModels = <<>>
    /\ budget = 0
    /\ call \in {[fn |-> "getAIModels", arg |-> file, done |-> FALSE, result |-> <<>>] :
                    file \in FnFiles}
               \cup {[fn |-> "compose", arg |-> a, done |-> FALSE, result |-> <<>>] :
                       a \in FnComposeArgs}
               \cup {[fn |-> "contextAware", arg |-> a, done |-> FALSE, result |-> <<>>] :
                       a \in FnTemplateArgs}
               \cup {[fn |-> "getModelErrorMessage", arg |-> error, done |-> FALSE,
                      result |-> <<>>] : error \in FnErrors}

\* getAIModels applied to the stored file call.arg.
CallGetAIModels ==
    /\ call.fn = "getAIModels"
    /\ ~call.done
    /\ call' = [call EXCEPT !.done = TRUE, !.result = getAIModels(call.arg)]
    /\ UNCHANGED <<storageFile, hostModels, lastUserQuery, lastModelResponse, turns,
                   tasks, mq, chatWebView, budget>>

\* The message composition of the handler applied to call.arg.
CallCompose ==
    /\ call.fn = "compose"
    /\ ~call.done
    /\ call' = [call EXCEPT !.done = TRUE,
                            !.result = ComposeMessage(call.arg.prompt,
                                                      call.arg.lastQuestion,
                                                      call.arg.lastAnswer)]
    /\ UNCHANGED <<storageFile, hostModels, lastUserQuery, lastModelResponse, turns,
                   tasks, mq, chatWebView, budget>>

\* The context-aware template of call.arg.variant applied to call.arg.
CallContextAware ==
    /\ call.fn = "contextAware"
    /\ ~call.done
    /\ call' = [call EXCEPT
                  !.done = TRUE,
                  !.result =
                      IF call.arg.variant = "lite"
                      THEN LITE_CONTEXT_AWARE_ENHANCEMENT_PROMPT(call.arg.originalPrompt,
                                                                 call.arg.editorContext)
                      ELSE CONTEXT_AWARE_ENHANCEMENT_PROMPT(call.arg.originalPrompt,
                                                            call.arg.editorContext)]
    /\ UNCHANGED <<storageFile, hostModels, lastUserQuery, lastModelResponse, turns,
                   tasks, mq, chatWebView, budget>>

\* getModelErrorMessage applied to call.arg.
CallGetModelErrorMessage ==
    /\ call.fn = "getModelErrorMessage"
    /\ ~call.done
    /\ call' = [call EXCEPT !.done = TRUE, !.result = getModelErrorMessage(call.arg)]
    /\ UNCHANGED <<storageFile, hostModels, lastUserQuery, lastModelResponse, turns,
                   tasks, mq, chatWebView, budget>>

NextFn == CallGetAIModels \/ CallCompose \/ CallContextAware \/ CallGetModelErrorMessage

SpecFn == InitFn /\ [][NextFn]_vars

\* ---------------------------------------------------------- storage service
\* Identifiers the user may select: plain, and with the characters JSON escapes
\* or uses as punctuation.
StoreIds ==
    { <<"g", "p", "t">>, <<"a", "\"", "]">>, <<"\\", "n", ",">>, <<"x", "\n">> }

\* Texts selectedModels.json may hold before the first call: not JSON, an
\* object without the key, a text cut off in the middle, a saved selection.
DiskTexts ==
    { <<"x">>,
      <<"{", "}">>,
      <<"{", JSONKey, ":", "[", "\"", "g">>,
      JSONStringify(<<(<<"g", "p", "t">>)>>) }

StoreFiles == {FileAbsent} \cup {FileOf(text) : text \in DiskTexts}

\* The storage service before its first call on a given file.
IdleStorage(file) ==
    [fn |-> "storage", op |-> "none", arg |-> <<>>, done |-> FALSE, result |-> <<>>,
     initial |-> file, writeThrew |-> FALSE, written |-> FALSE, content |-> <<>>,
     readThrew |-> FALSE, errorShown |-> FALSE]

\* saveSelectedModels(models) is called (by the selection dialog).
SaveSelectedModels(models, writeThrows) ==
    /\ call.fn = "storage"
    /\ budget > 0
    /\ budget' = budget - 1
    /\ storageFile' = saveSelectedModels(storageFile, models, writeThrows)
    /\ call' = [call EXCEPT !.op = "save", !.arg = models, !.done = TRUE,
                            !.writeThrew = writeThrows,
                            !.written = @ \/ ~writeThrows,
                            !.content = IF writeThrows THEN @ ELSE models,
                            !.errorShown = writeThrows]
    /\ UNCHANGED <<hostModels, lastUserQuery, lastModelResponse, turns, tasks, mq,
                   chatWebView>>

\* loadSelectedModels() is called; reading an existing file may throw.
LoadSelectedModels(readThrows) ==
    /\ call.fn = "storage"
    /\ budget > 0
    /\ readThrows => storageFile.state /= "absent"
    /\ budget' = budget - 1
    /\ call' = [call EXCEPT !.op = "load", !.done = TRUE, !.readThrew = readThrows,
                            !.result = IF readThrows THEN <<>>
                                       ELSE loadSelectedModels(storageFile)]
    /\ UNCHANGED <<storageFile, hostModels, lastUserQuery, lastModelResponse, turns,
                   tasks, mq, chatWebView>>

InitStore ==
    /\ InitProgram
    /\ storageFile \in StoreFiles
    /\ hostModels = <<>>
    /\ budget = StoreOps
    /\ call = IdleStorage(storageFile)

NextStore ==
    \/ \E models \in SeqsUpTo(StoreIds, MaxSel), writeThrows \in BOOLEAN :
          SaveSelectedModels(models, writeThrows)
    \/ \E readThrows \in BOOLEAN : LoadSelectedModels(readThrows)

SpecStore == InitStore /\ [][NextStore]_vars

\* ---------------------------------------------------------- panel messages
Message(command, modelName, isVisible) ==
    [command |-> command, modelName |-> modelName, isVisible |-> isVisible]

\* What the panel's script, or anything else, may post for a panel v: the three
\* commands of the script, a command the listener does not know and a message
\* without a command.
MessagesFor(v) ==
    { Message("clearChat", <<>>, FALSE),
      Message("openModelSelection", <<>>, FALSE),
      Message("refresh", <<>>, FALSE),
      Message("", <<>>, FALSE) }
    \cup { Message("toggleModelVisibility", v.modelNames[i], isVisible) :
              i \in 1..Len(v.modelNames), isVisible \in BOOLEAN }

\* A listener whose switch clears the chat for a command it does not know.
ReceiveMessage_DefaultClears(v, message) ==
    IF message.command = "toggleModelVisibility"
    THEN toggleModelVisibility(v, message.modelName, message.isVisible)
    ELSE IF message.command = "openModelSelection"
    THEN v
    ELSE clearChat(v)

\* The switch of the listener of setupMessageListener, as far as it changes
\* the ChatWebView.
ReceiveMessage(v, message) ==
    IF message.command = "clearChat"
    THEN clearChat(v)
    ELSE IF message.command = "openModelSelection"
    THEN v
    ELSE IF message.command = "toggleModelVisibility"
    THEN toggleModelVisibility(v, message.modelName, message.isVisible)
    ELSE v

\* The selection dialog is not open.
NoDialog == IdleCall

\* The selection dialog of the command selectModels is open. (done: the user
\* has changed the selection in it; result: the selection as last changed;
\* writeThrew: saving that selection failed; turnsBefore: the chat turns begun
\* before that change.)
DialogOpen ==
    [fn |-> "selectModels", arg |-> FileAbsent, done |-> FALSE, result |-> <<>>,
     writeThrew |-> FALSE, turnsBefore |-> 0]

\* The listener receives a message from the panel. openModelSelection runs
\* the command selectModels, which opens the selection dialog when the host
\* has models.
OnDidReceiveMessage(message) ==
    /\ mq = <<>>
    /\ chatWebView.panel
    /\ chatWebView.listeners > 0
    /\ budget > 0
    /\ chatWebView' = ReceiveMessage(chatWebView, message)
    /\ turns' = IF message.command = "clearChat"
                THEN [t \in 1..Len(turns) |->
                        [turns[t] EXCEPT !.cleared = @ \/ turns[t].all /= "none"]]
                ELSE turns
    /\ call' = IF message.command = "openModelSelection" /\ hostModels /= <<>>
               THEN DialogOpen ELSE call
    /\ budget' = budget - 1
    /\ UNCHANGED <<storageFile, hostModels, lastUserQuery, lastModelResponse, tasks, mq>>

\* A dialog that keeps a changed selection to itself (to be saved when the
\* dialog is accepted).
SelectionChanged_NotSaved(models, writeThrows) ==
    /\ mq = <<>>
    /\ call.fn = "selectModels"
    /\ budget > 0
    /\ call' = [call EXCEPT !.done = TRUE, !.result = models, !.writeThrew = FALSE,
                            !.turnsBefore = Len(turns)]
    /\ budget' = budget - 1
    /\ UNCHANGED <<storageFile, hostModels, lastUserQuery, lastModelResponse, turns,
                   tasks, mq, chatWebView>>

\* The user changes the selection in the dialog: it is saved at once.
SelectionChanged(models, writeThrows) ==
    /\ mq = <<>>
    /\ call.fn = "selectModels"
    /\ budget > 0
    /\ storageFile' = saveSelectedModels(storageFile, models, writeThrows)
    /\ call' = [call EXCEPT !.done = TRUE, !.result = models,
                            !.writeThrew = writeThrows, !.turnsBefore = Len(turns)]
    /\ budget' = budget - 1
    /\ UNCHANGED <<hostModels, lastUserQuery, lastModelResponse, turns, tasks, mq,
                   chatWebView>>

\* The dialog is accepted or hidden: nothing is saved or restored.
DialogCloses ==
    /\ mq = <<>>
    /\ call.fn = "selectModels"
    /\ call' = [call EXCEPT !.fn = "none"]
    /\ UNCHANGED <<storageFile, hostModels, lastUserQuery, lastModelResponse, turns,
                   tasks, mq, chatWebView, budget>>

\* The selections the dialog offers: the host's identifiers, each at most once.
DialogSelections ==
    {q \in SeqsUpTo({hostModels[h] : h \in 1..Len(hostModels)}, MaxSel) :
        \A i, j \in 1..Len(q) : q[i] = q[j] => i = j}

\* Turns whose requests do not fail, and the panel's messages with the
\* selection dialog they may open.
NextInbound ==
    \/ \E prompt \in PanelPrompts : StartTurn(prompt)
    \/ HandlerResumes
    \/ \E t \in 1..Len(turns) : SelectChatModels(t, FALSE)
    \/ \E k \in 1..Len(tasks) : SendRequestResolves(k)
    \/ \E k \in 1..Len(tasks), fragment \in Fragments : StreamYields(k, fragment)
    \/ \E k \in 1..Len(tasks) : StreamEnds(k)
    \/ RunFormat
    \/ RunSet
    \/ RunAllResolve
    \/ RunJoin
    \/ \E message \in MessagesFor(chatWebView) : OnDidReceiveMessage(message)
    \/ \E models \in DialogSelections, writeThrows \in BOOLEAN :
          SelectionChanged(models, writeThrows)
    \/ DialogCloses

InitInbound ==
    /\ InitProgram
    /\ storageFile = FileAbsent
    /\ hostModels = <<GptId, GeminiId>>
    /\ budget = InboundEvents
    /\ call = NoDialog

SpecInbound == InitInbound /\ [][NextInbound]_vars

\* ------------------------------------------------------ claims: resolve
\* A finished application of getAIModels to a stored file.
Resolved == call.fn = "getAIModels" /\ call.done

CatalogIds == {DEFAULT_AI_MODELS[i].id : i \in 1..Len(DEFAULT_AI_MODELS)}

CatalogEntry(id) ==
    CHOOSE m \in {DEFAULT_AI_MODELS[i] : i \in 1..Len(DEFAULT_AI_MODELS)} : m.id = id

HasSlash(id) == \E j \in 1..Len(id) : id[j] = "/"

\* t is what follows the last '/' of id (all of id when it has none).
IsTail(t, id) ==
    \E n \in 0..Len(id) :
        /\ t = SubSeq(id, n + 1, Len(id))
        /\ ~HasSlash(t)
        /\ n = 0 \/ id[n] = "/"

\* low is id with every capital letter replaced by its small letter.
IsLowered(low, id) ==
    /\ Len(low) = Len(id)
    /\ \A j \in 1..Len(id) :
          \/ \E u \in 1..Len(Upper) : id[j] = Upper[u] /\ low[j] = Lower[u]
          \/ (\A u \in 1..Len(Upper) : id[j] /= Upper[u]) /\ low[j] = id[j]

\* C8 as stated: for a non-empty selection S the result has the length of S, its
\* i-th entry has identifier S[i], is the catalogue entry for a catalogue id, and
\* otherwise is named by what follows the last '/' of S[i] (the whole id only when
\* it has no '/') with the lowered id as its one match pattern.
C8_ResolveAsStated ==
    Resolved /\ loadSelectedModels(call.arg) /= <<>> =>
        LET S == loadSelectedModels(call.arg)
        IN /\ Len(call.result) = Len(S)
           /\ \A i \in 1..Len(S) :
                 /\ call.result[i].id = S[i]
                 /\ S[i] \in CatalogIds => call.result[i] = CatalogEntry(S[i])
                 /\ S[i] \notin CatalogIds =>
                       /\ IsTail(call.result[i].displayName, S[i])
                       /\ Len(call.result[i].matchPatterns) = 1
                       /\ IsLowered(call.result[i].matchPatterns[1], S[i])

\* C8 amended: as above, but the display name is the whole identifier also when
\* nothing follows its last '/' (an identifier that ends in '/').
C8_ResolveKeepsOrder ==
    Resolved /\ loadSelectedModels(call.arg) /= <<>> =>
        LET S == loadSelectedModels(call.arg)
        IN /\ Len(call.result) = Len(S)
           /\ \A i \in 1..Len(S) :
                 /\ call.result[i].id = S[i]
                 /\ S[i] \in CatalogIds => call.result[i] = CatalogEntry(S[i])
                 /\ S[i] \notin CatalogIds =>
                       /\ \/ IsTail(call.result[i].displayName, S[i])
                             /\ call.result[i].displayName /= <<>>
                          \/ IsTail(<<>>, S[i]) /\ call.result[i].displayName = S[i]
                       /\ Len(call.result[i].matchPatterns) = 1
                       /\ IsLowered(call.result[i].matchPatterns[1], S[i])

\* C8 witness: a selection of an id ending in '/' and an id with a capital
\* behind its last '/', resolved in that order.
C8_Witness ==
    /\ Resolved
    /\ loadSelectedModels(call.arg) = <<TrailingSlash, <<"a", "/", "b", "/", "C">> >>
    /\ call.result[1].displayName = TrailingSlash
    /\ call.result[2].displayName = <<"C">>
    /\ call.result[2].matchPatterns = << <<"a", "/", "b", "/", "c">> >>

\* C9: getAIModels on an empty or missing persisted selection (no file, an
\* unreadable file, a file without the key, an empty list) returns exactly
\* DEFAULT_AI_MODELS, in its order.
C9_EmptySelectionGivesDefaults ==
    Resolved /\ (call.arg.state /= "ok" \/ call.arg.selectedModels = <<>>) =>
        /\ call.result = DEFAULT_AI_MODELS
        /\ call.result[1].id = GptId
        /\ call.result[2].id = GeminiId

\* C9 witness: the defaults returned for an absent file.
C9_Witness ==
    Resolved /\ call.arg = FileAbsent /\ call.result = DEFAULT_AI_MODELS

\* --------------------------------------------------------- claims: chat
\* Turn t got as far as dispatching its requests.
Dispatched(t) == turns[t].all /= "none"

\* No other turn has dispatched (and reset the panel) since turn t did: requests
\* are listed in the order of dispatch.
LastDispatched(t) ==
    \A k \in TasksOf(t) : \A j \in (k + 1)..Len(tasks) : tasks[j].turn = t

\* The targets of turn t have pairwise different panel names.
UniqueNames(t) ==
    \A j, k \in TasksOf(t) : tasks[j].modelName = tasks[k].modelName => j = k

\* Turn t is the only writer of its panel slots: it ran alone, nobody cleared
\* the panel, and its targets do not share a name.
Undisturbed(t) ==
    /\ Dispatched(t)
    /\ LastDispatched(t)
    /\ UniqueNames(t)
    /\ ~turns[t].overlap
    /\ ~turns[t].cleared

\* Every request of turn t has settled and every panel update has been applied.
Quiet(t) == mq = <<>> /\ \A k \in TasksOf(t) : Settled(k)

\* The markdown text behind what the panel stores for a name ('' for none).
SrcOf(v, name) == IF name \in DOMAIN v.responses THEN v.responses[name].src ELSE <<>>

IsPrefix(a, b) == Len(a) <= Len(b) /\ SubSeq(b, 1, Len(a)) = a

\* One of the error strings of the handler's catch block.
IsErrorString(text) ==
    \/ text \in {CompatibilityText1, CompatibilityText2, RequestErrorText}
    \/ text /= <<>> /\ text[1] = "Error: "

\* C1: in an undisturbed dispatched turn whose requests have all settled, the
\* panel slot of every target that succeeded holds that target's complete text,
\* the slot of every target that failed (at request time or mid-stream) holds the
\* error string for its error, and the handler has returned without throwing.
C1_FailureIsolation ==
    \A t \in 1..Len(turns) :
        Undisturbed(t) /\ Quiet(t) =>
            /\ turns[t].pc = "returned"
            /\ \A k \in TasksOf(t) :
                  /\ tasks[k].modelName \in DOMAIN chatWebView.responses
                  /\ tasks[k].failed =>
                        /\ chatWebView.responses[tasks[k].modelName] =
                               marked(getModelErrorMessage(tasks[k].error))
                        /\ IsErrorString(SrcOf(chatWebView, tasks[k].modelName))
                  /\ ~tasks[k].failed =>
                        /\ SrcOf(chatWebView, tasks[k].modelName) = tasks[k].responseText
                        /\ tasks[k].responseText /= <<>> =>
                              chatWebView.responses[tasks[k].modelName] =
                                  marked(tasks[k].responseText)

\* C1 witness: a settled two-target turn in which exactly one target failed, its
\* slot showing an error string and the other slot the other target's text.
C1_Witness ==
    \E t \in 1..Len(turns) :
        /\ Undisturbed(t) /\ Quiet(t)
        /\ turns[t].pc = "returned"
        /\ Cardinality(TasksOf(t)) = 2
        /\ \E j, k \in TasksOf(t) :
              /\ tasks[k].failed /\ ~tasks[j].failed
              /\ IsErrorString(SrcOf(chatWebView, tasks[k].modelName))
              /\ tasks[j].responseText /= <<>>
              /\ chatWebView.responses[tasks[j].modelName] = marked(tasks[j].responseText)

\* C2 as stated: the handler of a dispatched turn has returned only if every
\* request of the turn has settled, whatever value a request threw.
C2_JoinAll ==
    \A t \in 1..Len(turns) :
        turns[t].pc = "returned" => \A k \in TasksOf(t) : Settled(k)

\* Another request of the same name may write the slot of request k.
Rival(k) ==
    \E j \in 1..Len(tasks) :
        /\ j /= k
        /\ tasks[j].modelName = tasks[k].modelName
        /\ \/ tasks[j].turn = tasks[k].turn
           \/ turns[tasks[j].turn].overlap
           \/ turns[tasks[k].turn].overlap

\* The step consumes a fragment of request k: exactly one panel update is
\* issued, for k's name, with k's text so far, the old text extended.
FragmentForwarded(k) ==
    tasks'[k].fragments /= tasks[k].fragments =>
        /\ tasks'[k].fragments = tasks[k].fragments + 1
        /\ IsPrefix(tasks[k].responseText, tasks'[k].responseText)
        /\ Len(mq') = 1
        /\ mq'[1].type \in {"format", "set"}
        /\ mq'[1].task = k
        /\ mq'[1].name = tasks[k].modelName
        /\ mq'[1].text = tasks'[k].responseText

\* The step stores a fragment update of a request without rival: the stored
\* text is the update's text and extends the text stored before.
StoreExtends ==
    (/\ mq /= <<>>
     /\ Head(mq).type = "set"
     /\ ~tasks[Head(mq).task].failed
     /\ ~Rival(Head(mq).task)) =>
        /\ SrcOf(chatWebView', Head(mq).name) = Head(mq).text
        /\ IsPrefix(SrcOf(chatWebView, Head(mq).name), SrcOf(chatWebView', Head(mq).name))

\* C3: every fragment triggers one panel update carrying the running
\* concatenation, and the texts stored in a target's slot arrive in fragment
\* order: each stored text extends the one stored before it, whatever the other
\* targets do in between.
C3_SameTargetOrdering ==
    [][(\A k \in 1..Len(tasks) : FragmentForwarded(k)) /\ StoreExtends]_vars

\* C3 witness: a target of a two-target turn has received two non-empty
\* fragments and its slot holds their concatenation.
C3_Witness ==
    \E k \in 1..Len(tasks) :
        /\ mq = <<>>
        /\ tasks[k].fragments = 2
        /\ Len(tasks[k].responseText) >= 5
        /\ ~Rival(k)
        /\ Cardinality(TasksOf(tasks[k].turn)) = 2
        /\ chatWebView.responses[tasks[k].modelName] = marked(tasks[k].responseText)

\* C4 as stated: once the cancellation token of a turn has fired, no request of
\* the turn forwards a further fragment, a request that settles afterwards
\* settles as failed, and a settled request keeps its text.
C4_CancellationStopsUpdates ==
    [][\A k \in 1..Len(tasks) :
          turns[tasks[k].turn].cancelled =>
              /\ tasks'[k].fragments = tasks[k].fragments
              /\ ~Settled(k) /\ tasks'[k].pc \in {"fulfilled", "rejected"} =>
                    tasks'[k].failed
              /\ Settled(k) => tasks'[k].responseText = tasks[k].responseText]_vars

\* C5: a turn that returns without any handle (no lookup found one, the
\* unfiltered fallback returned none) has written exactly one message and issued
\* no request, and no step of a turn that has not dispatched touches the panel or
\* issues a request; a turn that dispatched has a non-empty set of targets.
C5_NoTargetTurn ==
    /\ [](\A t \in 1..Len(turns) :
            /\ turns[t].pc = "returned" /\ turns[t].selectedModels = <<>> =>
                  /\ ~Dispatched(t)
                  /\ turns[t].markdown = <<NoModelsMarkdown>>
            /\ ~Dispatched(t) => TasksOf(t) = {}
            /\ Dispatched(t) =>
                  /\ turns[t].selectedModels /= <<>>
                  /\ turns[t].n >= 1
                  /\ TasksOf(t) /= {})
    /\ [][\A t \in 1..Len(turns') :
            (/\ turns'[t].all = "none"
             /\ t > Len(turns) \/ turns'[t] /= turns[t]) =>
                /\ chatWebView' = chatWebView
                /\ tasks' = tasks]_vars

\* C5 witness: a turn has returned with no target and one message, and the
\* panel is as constructed.
C5_Witness ==
    \E t \in 1..Len(turns) :
        /\ turns[t].pc = "returned"
        /\ turns[t].usedFallback
        /\ turns[t].selectedModels = <<>>
        /\ turns[t].markdown = <<NoModelsMarkdown>>
        /\ tasks = <<>>
        /\ chatWebView = NewChatWebView

\* The names the panel lists.
ListedNames == {chatWebView.modelNames[i] : i \in 1..Len(chatWebView.modelNames)}

\* C6: a dispatched turn with more than 6 selected models has exactly 6 requests,
\* for the first 6 models in selection order; the panel lists the names of those
\* 6 and never the name of a later one, and no request goes to a later one.
C6_CapEnforced ==
    \A t \in 1..Len(turns) :
        Dispatched(t) /\ Len(turns[t].selectedModels) > 6 =>
            LET sel == turns[t].selectedModels
                nameOf(j) == ModelName(turns[t].aiModels, sel[j], j)
            IN /\ Cardinality(TasksOf(t)) = 6
               /\ \A k \in TasksOf(t) :
                     /\ tasks[k].index \in 1..6
                     /\ tasks[k].model = sel[tasks[k].index]
                     /\ tasks[k].modelName = nameOf(tasks[k].index)
               /\ \A j \in 1..6 : \E k \in TasksOf(t) : tasks[k].index = j
               /\ LastDispatched(t) =>
                     /\ chatWebView.modelNames = [j \in 1..6 |-> nameOf(j)]
                     /\ DOMAIN chatWebView.responses = {nameOf(j) : j \in 1..6}
                     /\ \A j \in 7..Len(sel) : nameOf(j) \notin ListedNames

\* C6 witness: a turn with more than 6 selected models has returned after its 6
\* requests settled.
C6_Witness ==
    \E t \in 1..Len(turns) :
        /\ Len(turns[t].selectedModels) > 6
        /\ turns[t].pc = "returned"
        /\ Cardinality(TasksOf(t)) = 6
        /\ \A k \in TasksOf(t) : Settled(k)

\* The first model the host has under an id.
FirstHandle(id) ==
    LET hs == {h \in 1..Len(hostModels) : hostModels[h] = id}
    IN [id |-> id, h |-> CHOOSE h \in hs : \A g \in hs : h <= g]

\* The handles of the first n configurations whose lookup did not throw and
\* found a model, in the order of the configurations.
RECURSIVE FoundHandles(_, _, _)
FoundHandles(aiModels, lookups, n) ==
    IF n = 0 THEN <<>>
    ELSE LET earlier == FoundHandles(aiModels, lookups, n - 1)
             id == aiModels[n].id
         IN IF lookups[n] /= "throws" /\ \E h \in 1..Len(hostModels) : hostModels[h] = id
            THEN Append(earlier, FirstHandle(id))
            ELSE earlier

\* C7: the selected models are the handles of the configurations whose lookup
\* returned a model without throwing, one each, in configuration order; the
\* unfiltered fallback is used exactly when there is none, and then the selected
\* models are the host's models in the host's order.
C7_Materialize ==
    \A t \in 1..Len(turns) :
        LET T == turns[t]
            found == FoundHandles(T.aiModels, T.lookups, Len(T.lookups))
        IN /\ Len(T.lookups) <= Len(T.aiModels)
           /\ ~T.usedFallback /\ T.pc /= "fallback" => T.selectedModels = found
           /\ T.usedFallback \/ T.pc = "fallback" =>
                 /\ found = <<>>
                 /\ Len(T.lookups) = Len(T.aiModels)
           /\ T.pc \in {"join", "returned"} =>
                 /\ Len(T.lookups) = Len(T.aiModels)
                 /\ T.usedFallback <=> found = <<>>
                 /\ T.selectedModels = IF found = <<>> THEN Handles ELSE found

\* C7 witness: of two lookups the first threw and the second found a model; the
\* turn dispatched to that one model without the fallback.
C7_Witness ==
    \E t \in 1..Len(turns) :
        /\ turns[t].pc \in {"join", "returned"}
        /\ turns[t].lookups = <<"throws", "found">>
        /\ ~turns[t].usedFallback
        /\ turns[t].selectedModels = <<FirstHandle(turns[t].aiModels[2].id)>>
        /\ Cardinality(TasksOf(t)) = 1

\* C10 as stated: after a turn with prompt Q whose only request completed with
\* a text A that is not an error, the message composed for the next turn holds Q
\* as the previous question and A as the previous response.
C10_ContextRoundTrip ==
    \A t \in 1..Len(turns) :
        (/\ t < Len(turns)
         /\ ~turns[t].cancelled
         /\ Cardinality(TasksOf(t)) = 1
         /\ \A k \in TasksOf(t) :
               /\ tasks[k].pc = "fulfilled"
               /\ ~tasks[k].failed
               /\ ~LooksLikeError(tasks[k].responseText)) =>
            \A k \in TasksOf(t) :
                /\ Includes(turns[t + 1].userMessageText,
                            <<"Previous Question: ">> \o turns[t].prompt \o <<"\n">>)
                /\ Includes(turns[t + 1].userMessageText,
                            <<"Previous Response: ">> \o tasks[k].responseText \o <<"\n">>)

\* ------------------------------------------------- claims: turn context
\* Turns 1..t ran one after the other: none was cancelled and none returned
\* early, so each began after every request of the ones before had settled.
Sequential(t) ==
    \A u \in 1..t : ~turns[u].cancelled /\ turns[u].all /= "rejected"

\* The text contains "error:" in some mix of capital and small letters.
HasErrorMarker(text) ==
    \E i \in 1..Len(text) :
        /\ i + 5 <= Len(text)
        /\ text[i] \in {"e", "E"} /\ text[i + 1] \in {"r", "R"}
        /\ text[i + 2] \in {"r", "R"} /\ text[i + 3] \in {"o", "O"}
        /\ text[i + 4] \in {"r", "R"} /\ text[i + 5] = ":"

\* The message without history block for a prompt.
ContextLess(prompt) ==
    <<"### Role ###\n",
      "You are an expert AI assistant. Your task is to provide detailed, beginner-friendly explanations.\n",
      "### Current Question ###\n">> \o prompt

HistoryHeading == <<"### Conversation History ###\n">>

\* Every request of turn t completed or failed, none with an answer to keep.
NoAnswerToKeep(t) ==
    \A k \in TasksOf(t) :
        /\ Settled(k)
        /\ tasks[k].failed \/ HasErrorMarker(tasks[k].responseText)

\* C11: lastModelResponse never contains "error:" in any letter case; and when
\* a turn that began with an empty context has one target whose answer contains
\* "error:", the next turn's message is the one without history block.
C11_ErroneousAnswerNotStored ==
    /\ lastModelResponse /= Null => ~HasErrorMarker(lastModelResponse)
    /\ \A t \in 1..Len(turns) :
          (/\ t < Len(turns)
           /\ Sequential(t)
           /\ turns[t].context.lastQuestion \in {Null, <<>>}
           /\ turns[t].context.lastAnswer \in {Null, <<>>}
           /\ Cardinality(TasksOf(t)) = 1
           /\ \A k \in TasksOf(t) :
                 /\ tasks[k].pc = "fulfilled" /\ ~tasks[k].failed
                 /\ HasErrorMarker(tasks[k].responseText)) =>
              /\ turns[t + 1].userMessageText = ContextLess(turns[t + 1].prompt)
              /\ ~Includes(turns[t + 1].userMessageText, HistoryHeading)

\* C11 witness: the one target of the first turn answered "ErrOR:", and the
\* second turn's message has no history block.
C11_Witness ==
    /\ Len(turns) >= 2
    /\ Sequential(1)
    /\ TasksOf(1) = {1}
    /\ tasks[1].pc = "fulfilled" /\ ~tasks[1].failed
    /\ tasks[1].responseText = <<"E", "r", "r", "O", "R", ":">>
    /\ lastModelResponse = Null
    /\ turns[2].userMessageText = ContextLess(turns[2].prompt)

\* C12: the turn context changes only when a request completes with a text
\* without "error:", to that text; so after a turn, run in sequence, whose every
\* target failed or answered with "error:", the next turn starts from the context
\* the turn started from and composes its message from it.
C12_NoAnswerKeepsContext ==
    /\ [](\A t \in 1..Len(turns) :
            (t < Len(turns) /\ Sequential(t) /\ Dispatched(t) /\ NoAnswerToKeep(t)) =>
                /\ turns[t + 1].context = turns[t].context
                /\ turns[t + 1].userMessageText =
                       ComposeMessage(turns[t + 1].prompt,
                                      turns[t].context.lastQuestion,
                                      turns[t].context.lastAnswer))
    /\ [][/\ lastUserQuery' = lastUserQuery
          /\ lastModelResponse' /= lastModelResponse =>
                \E k \in 1..Len(tasks) :
                    /\ tasks[k].pc = "stream"
                    /\ tasks'[k].pc = "fulfilled"
                    /\ ~tasks'[k].failed
                    /\ ~HasErrorMarker(tasks[k].responseText)
                    /\ lastModelResponse' = tasks[k].responseText]_vars

\* C12 witness: the first turn was answered "ok", the target of the second turn
\* failed mid-stream, and the third turn's message still shows "ok" as the
\* previous response.
C12_Witness ==
    /\ Len(turns) = 3
    /\ Sequential(2)
    /\ tasks[1].turn = 1 /\ tasks[1].responseText = <<"o", "k">> /\ ~tasks[1].failed
    /\ tasks[2].turn = 2 /\ tasks[2].failed
    /\ NoAnswerToKeep(2)
    /\ lastModelResponse = <<"o", "k">>
    /\ Includes(turns[3].userMessageText,
                <<"Previous Response: ", "o", "k", "\n">>)

\* The step completes the stream of request k.
Completes(k) ==
    tasks[k].pc = "stream" /\ tasks'[k].pc = "fulfilled" /\ ~tasks'[k].failed

\* C13: a request that completes with a text without "error:" stores that text
\* as lastModelResponse whatever was stored before, and nothing else stores
\* anything: after several targets of a turn completed, lastModelResponse is the
\* text of the one that completed last.
C13_LastWriterWins ==
    [][/\ \A k \in 1..Len(tasks) :
             Completes(k) /\ ~HasErrorMarker(tasks[k].responseText) =>
                 lastModelResponse' = tasks[k].responseText
       /\ (\A k \in 1..Len(tasks) :
              ~(Completes(k) /\ ~HasErrorMarker(tasks[k].responseText))) =>
                 lastModelResponse' = lastModelResponse]_vars

\* C13 witness: both targets of a turn completed with different texts, and the
\* text stored is that of the target dispatched first, which completed last.
C13_Witness ==
    /\ Len(tasks) = 2
    /\ tasks[1].turn = tasks[2].turn
    /\ tasks[1].pc = "fulfilled" /\ ~tasks[1].failed
    /\ tasks[2].pc = "fulfilled" /\ ~tasks[2].failed
    /\ tasks[1].responseText = <<"o", "k">>
    /\ tasks[2].responseText = <<"E", "r", "r">>
    /\ lastModelResponse = <<"o", "k">>

\* C14: every request of a turn was sent the same message, the one composed
\* from the prompt and the turn context as it was when the turn began, whatever
\* has been stored in the context since.
C14_SameMessageToAll ==
    \A k \in 1..Len(tasks) :
        LET T == turns[tasks[k].turn]
        IN /\ tasks[k].sent = ComposeMessage(T.prompt, T.context.lastQuestion,
                                             T.context.lastAnswer)
           /\ \A j \in TasksOf(tasks[k].turn) : tasks[j].sent = tasks[k].sent

\* C14 witness: one target of a two-target turn has completed and stored its
\* answer "ok" while the other still waits for its request; both were sent the
\* message without history.
C14_Witness ==
    /\ Len(tasks) = 2
    /\ tasks[1].turn = 1 /\ tasks[2].turn = 1
    /\ tasks[2].pc = "fulfilled" /\ tasks[2].responseText = <<"o", "k">>
    /\ lastModelResponse = <<"o", "k">>
    /\ tasks[1].pc = "sendRequest"
    /\ tasks[1].sent = ContextLess(turns[1].prompt)
    /\ tasks[1].sent /= ComposeMessage(turns[1].prompt, lastUserQuery, lastModelResponse)

\* ---------------------------------------------- claims: composed message
Composed == call.fn = "compose" /\ call.done

\* The text is empty or missing.
Blank(x) == x = Null \/ x = <<>>

\* C15: the composed message holds the history block (heading, previous
\* question, previous response) exactly when lastUserQuery or lastModelResponse
\* is a non-empty text; without it the message is the role preamble and the
\* current question alone; the message always ends with the current question
\* under its heading.
C15_HistoryIffContext ==
    Composed =>
        LET a == call.arg
            msg == call.result
            has == ~Blank(a.lastQuestion) \/ ~Blank(a.lastAnswer)
            n == Len(msg) - Len(a.prompt)
        IN /\ Includes(msg, HistoryHeading) <=> has
           /\ Includes(msg, <<"Previous Question: ">>) <=> has
           /\ Includes(msg, <<"Previous Response: ">>) <=> has
           /\ ~has => msg = ContextLess(a.prompt)
           /\ msg[1] = "### Role ###\n"
           /\ n >= 1
           /\ msg[n] = "### Current Question ###\n"
           /\ SubSeq(msg, n + 1, Len(msg)) = a.prompt

\* C15 witness: a message composed with no previous question and the previous
\* response "ok" holds the history block and the prompt.
C15_Witness ==
    /\ Composed
    /\ call.arg.lastQuestion = Null
    /\ call.arg.lastAnswer = <<"o", "k">>
    /\ call.arg.prompt = <<"h", "i">>
    /\ Includes(call.result, HistoryHeading)
    /\ Includes(call.result, <<"Previous Response: ", "o", "k", "\n",
                               "### Current Question ###\n", "h", "i">>)

\* ------------------------------------------------ claims: failed streams
\* C16: once a request that had forwarded fragments has failed and the pending
\* panel updates are applied, its slot (in an undisturbed turn) holds the markup
\* of the error text alone: not the text received so far, and not that text with
\* the error text after it; this stays so in every later state.
C16_ErrorReplacesPartial ==
    \A k \in 1..Len(tasks) :
        (/\ tasks[k].failed
         /\ tasks[k].fragments >= 1
         /\ mq = <<>>
         /\ Undisturbed(tasks[k].turn)) =>
            LET errorMessage == getModelErrorMessage(tasks[k].error)
                slot == chatWebView.responses[tasks[k].modelName]
            IN /\ tasks[k].modelName \in DOMAIN chatWebView.responses
               /\ slot = [kind |-> "html", src |-> errorMessage]
               /\ IsErrorString(slot.src)
               /\ slot.src /= tasks[k].responseText
               /\ slot.src /= tasks[k].responseText \o errorMessage
                     \/ tasks[k].responseText = <<>>

\* C16 witness: a request received "ok", then its stream failed; its slot shows
\* the error text and nothing of "ok".
C16_Witness ==
    \E k \in 1..Len(tasks) :
        /\ tasks[k].failed
        /\ tasks[k].fragments = 1
        /\ tasks[k].responseText = <<"o", "k">>
        /\ mq = <<>>
        /\ Undisturbed(tasks[k].turn)
        /\ chatWebView.responses[tasks[k].modelName].src =
               <<"Error: ", "b", "o", "o", "m">>

\* ------------------------------------------------------ claims: templates
Templated == call.fn = "contextAware" /\ call.done

IsDigit(piece) == \E d \in 1..Len(Digits) : Digits[d] = piece

Min(a, b) == IF a < b THEN a ELSE b

\* The truncation marker of a variant's context-aware template.
MarkerOf(variant) ==
    IF variant = "lite" THEN "\n... (truncated)" ELSE "\n... (content truncated)"

\* C18: a context-aware template applied to an editor text of length L embeds
\* exactly the first min(L, 2000) characters of it, in order, and the
\* truncation marker comes right after them if and only if L > 2000; otherwise
\* no marker occurs anywhere.
C18_TruncationRule ==
    Templated =>
        LET text == call.arg.editorContext.text
            msg == call.result
            keep == Min(Len(text), 2000)
            marks == {i \in 1..Len(msg) :
                         msg[i] \in {"\n... (truncated)", "\n... (content truncated)"}}
        IN /\ SelectSeq(msg, IsDigit) = SubSeq(text, 1, keep)
           /\ \E i \in 1..Len(msg) :
                 /\ msg[i] = "\n"
                 /\ SubSeq(msg, i + 1, i + keep) = SubSeq(text, 1, keep)
                 /\ Len(text) > 2000 =>
                       marks = {i + keep + 1} /\ msg[i + keep + 1] = MarkerOf(call.arg.variant)
                 /\ Len(text) <= 2000 => marks = {}

\* C18 witness: the lite template applied to 2001 characters holds the first
\* 2000 followed by the marker.
C18_Witness ==
    /\ Templated
    /\ call.arg.variant = "lite"
    /\ Len(call.arg.editorContext.text) = 2001
    /\ Len(SelectSeq(call.result, IsDigit)) = 2000
    /\ Includes(call.result,
                <<call.arg.editorContext.text[2000], "\n... (truncated)">>)

\* ----------------------------------------------------------------- C17
\* The context the command found is usable: an editor is open and its text is
\* not blank.
ContextUsable == call.editorContext.present /\ Trim(call.editorContext.text) /= <<>>

\* C17: in a run of the Enhance Prompt command the lite call is sent a lite
\* template and the pro call a pro template, context-aware when the editor
\* context is present and not blank, and context-free otherwise.
C17_TemplateSelection ==
    (call.fn = "enhance" /\ call.lite.pc /= "idle") =>
        IF ContextUsable
        THEN /\ call.lite.sent = LITE_CONTEXT_AWARE_ENHANCEMENT_PROMPT(
                                     call.textToEnhance, call.editorContext)
             /\ call.pro.sent = PRO_CONTEXT_AWARE_ENHANCEMENT_PROMPT(
                                    call.textToEnhance, call.editorContext)
        ELSE /\ call.lite.sent = LITE_ENHANCEMENT_PROMPT(call.textToEnhance)
             /\ call.pro.sent = PRO_ENHANCEMENT_PROMPT(call.textToEnhance)

\* ----------------------------------------------------------------- C19
\* What stands in a document between two of its headings.
Slot(document, from, to) ==
    LET i == CHOOSE i \in 1..Len(document) : document[i] = from
        j == CHOOSE j \in 1..Len(document) : document[j] = to /\ j > i
    IN SubSeq(document, i + 1, j - 1)

LiteSlot(document) == Slot(document, LiteHeading, ProHeading)

ProSlot(document) == Slot(document, ProHeading, DocumentEnd)

\* The slot holds what the call of variant v came to: a failure text when it
\* failed, all it received (trimmed) otherwise.
SlotFits(slot, v) ==
    IF call[v].failed
    THEN IsPrefix(<<"Enhancement failed: ">>, slot)
    ELSE slot = Trim(call[v].text)

\* The two calls were started and the command has gone past their join.
Joined == call.fn = "enhance" /\ call.lite.pc /= "idle" /\ call.pc \in {"show", "finally", "done"}

\* C19: the comparison document exists only once both the lite and the pro
\* call have settled; the lite slot holds the lite result and the pro slot the
\* pro result whichever settled first; a failed call leaves a failure text in
\* its own slot and the other slot holds the other call's whole result.
C19_EnhancementJoin ==
    /\ (call.fn = "enhance" /\ call.pc = "await") => call.result = <<>>
    /\ Joined =>
        /\ call.lite.pc = "settled" /\ call.pro.pc = "settled"
        /\ SlotFits(LiteSlot(call.result), "lite")
        /\ SlotFits(ProSlot(call.result), "pro")
        /\ ~call.errorMessage => call.pc = "show" \/ call.shown = call.result

\* The pro call settled first with " ok", the lite call failed afterwards.
C19_Witness ==
    /\ Joined
    /\ call.first = "pro"
    /\ call.lite.failed
    /\ call.pro.text = <<" ", "o", "k">>
    /\ ProSlot(call.result) = <<"o", "k">>

\* ----------------------------------------------------------------- C20
\* The names the panel knows: listed, hidden or with a stored text.
KnownNames ==
    ListedNames \cup chatWebView.hiddenModels \cup DOMAIN chatWebView.responses

\* The column the panel renders for a listed name.
ColumnOf(v, modelName) ==
    LET columns == renderModelColumns(v)
    IN columns[CHOOSE i \in 1..Len(columns) : columns[i].model = modelName]

\* toggleModelVisibility(X, isVisible) applied to the panel as it is: no other
\* name's visibility and no stored text changes, X becomes as asked, a second
\* application changes nothing, and a listed X made visible is rendered with
\* its stored text.
ToggleFrame(modelName, isVisible) ==
    LET w == toggleModelVisibility(chatWebView, modelName, isVisible)
    IN /\ w.responses = chatWebView.responses
       /\ w.modelNames = chatWebView.modelNames
       /\ \A other \in KnownNames \ {modelName} :
             other \in w.hiddenModels <=> other \in chatWebView.hiddenModels
       /\ modelName \in w.hiddenModels <=> ~isVisible
       /\ toggleModelVisibility(w, modelName, isVisible) = w
       /\ (isVisible /\ modelName \in ListedNames) =>
             /\ ~ColumnOf(w, modelName).hidden
             /\ ColumnOf(w, modelName).content = renderModelResponse(chatWebView, modelName)

\* A step that changes some name's visibility changes that of one name only
\* and leaves the names and the stored texts alone.
VisibilityStep ==
    chatWebView'.hiddenModels /= chatWebView.hiddenModels =>
        /\ chatWebView'.responses = chatWebView.responses
        /\ chatWebView'.modelNames = chatWebView.modelNames
        /\ \E modelName \in KnownNames, isVisible \in BOOLEAN :
              chatWebView' = toggleModelVisibility(chatWebView, modelName, isVisible)

\* A step that stores an update stores it whether the name is hidden or not.
StoreStep ==
    (mq /= <<>> /\ Head(mq).type = "set" /\ mq' = Tail(mq)) =>
        /\ chatWebView'.responses[Head(mq).name] = formatMarkdown(Head(mq).text)
        /\ chatWebView'.hiddenModels = chatWebView.hiddenModels

\* C20: setting the visibility of a target changes the visibility of no other
\* target and the stored text of none, doing it twice is doing it once, and a
\* target hidden while it streams keeps accumulating, so that making it
\* visible again shows its last stored text.
C20_VisibilityToggle ==
    /\ [](\A modelName \in KnownNames, isVisible \in BOOLEAN :
             ToggleFrame(modelName, isVisible))
    /\ [][VisibilityStep /\ StoreStep]_vars

\* A name that had a text stored while hidden is visible again and its column
\* shows a text.
C20_Witness ==
    \E modelName \in chatWebView.storedHidden :
        /\ modelName \in ListedNames
        /\ modelName \notin chatWebView.hiddenModels
        /\ ~ColumnOf(chatWebView, modelName).hidden
        /\ ColumnOf(chatWebView, modelName).content.kind
               \notin {"typing-block", "typing-inline", "waiting"}

\* ----------------------------------------------------------------- C21
\* clearChat applied to the panel as it is: names, their order and their
\* visibility stay, the user message is empty and every column shows the
\* waiting placeholder.
ClearFrame ==
    LET w == clearChat(chatWebView)
        before == renderModelColumns(chatWebView)
        after == renderModelColumns(w)
    IN /\ w.modelNames = chatWebView.modelNames
       /\ w.hiddenModels = chatWebView.hiddenModels
       /\ w.lastUserMessage = <<>>
       /\ Len(after) = Len(before)
       /\ \A i \in 1..Len(after) :
             /\ after[i].model = before[i].model
             /\ after[i].hidden = before[i].hidden
             /\ after[i].content = WaitingBlock

\* A step in which the user clears the panel of a dispatched turn is clearChat.
ClearStep ==
    (/\ Len(turns') = Len(turns)
     /\ \E t \in 1..Len(turns) : ~turns[t].cleared /\ turns'[t].cleared) =>
        chatWebView' = clearChat(chatWebView)

\* C21: clear keeps the list of names, in order, and the visibility of every
\* name, resets what every name shows to the waiting placeholder and empties
\* the user message.
C21_ClearKeepsNames == []ClearFrame /\ [][ClearStep]_vars

\* The panel of a two-target turn was cleared while one of the names was hidden.
C21_Witness ==
    /\ \E t \in 1..Len(turns) : turns[t].cleared
    /\ Len(chatWebView.modelNames) = 2
    /\ chatWebView.hiddenModels /= {}
    /\ chatWebView.hiddenModels \subseteq ListedNames
    /\ chatWebView.lastUserMessage = <<>>
    /\ \A i \in 1..2 : renderModelColumns(chatWebView)[i].content = WaitingBlock

\* ----------------------------------------------------------------- C22
\* resetModels applied to the panel as it is.
ResetFrame ==
    LET w == resetModels(chatWebView)
    IN /\ w.modelNames = <<>>
       /\ DOMAIN w.responses = {}
       /\ renderModelColumns(w) = <<>>
       /\ w.lastUserMessage = chatWebView.lastUserMessage

\* The names of the requests a step dispatches.
NewNames == {tasks'[k].modelName : k \in (Len(tasks) + 1)..Len(tasks')}

\* A step that dispatches a turn leaves only that turn's names and slots.
ResetStep ==
    Len(tasks') > Len(tasks) =>
        /\ {chatWebView'.modelNames[i] : i \in 1..Len(chatWebView'.modelNames)} = NewNames
        /\ DOMAIN chatWebView'.responses = NewNames

\* C22: resetModels empties the list of names and all stored texts and leaves
\* the user message as it was.
C22_ResetEmptiesTargets == []ResetFrame /\ [][ResetStep]_vars

\* A second turn was dispatched after the first had text in the panel: its
\* slots are fresh.
C22_Witness ==
    /\ Len(turns) = 2
    /\ turns[2].pc = "join"
    /\ \E k \in TasksOf(1) : tasks[k].responseText /= <<>>
    /\ \A k \in TasksOf(2) : tasks[k].pc = "sendRequest"
    /\ \A name \in ListedNames : renderModelResponse(chatWebView, name) = TypingBlock

\* ----------------------------------------------------------------- C23
\* startModelResponse applied to the panel as it is, for a name.
RegisterFrame(modelName) ==
    LET w == startModelResponse(chatWebView, modelName)
    IN /\ w.modelNames = IF modelName \in ListedNames
                         THEN chatWebView.modelNames
                         ELSE Append(chatWebView.modelNames, modelName)
       /\ w.responses[modelName] = TypingBlock
       /\ \A other \in DOMAIN chatWebView.responses \ {modelName} :
             w.responses[other] = chatWebView.responses[other]
       /\ w.hiddenModels = chatWebView.hiddenModels

\* A name no request uses.
FreshName == <<"n", "e", "w">>

\* C23: the list of names never holds a name twice; registering a listed name
\* leaves the list as it is and resets what is stored for the name to the
\* typing placeholder.
C23_RegisterIdempotent ==
    /\ \A i, j \in 1..Len(chatWebView.modelNames) :
          chatWebView.modelNames[i] = chatWebView.modelNames[j] => i = j
    /\ \A modelName \in KnownNames \cup {FreshName} : RegisterFrame(modelName)

\* Two requests of one turn have the same name: it was registered four times
\* and is listed once.
C23_Witness ==
    \E t \in 1..Len(turns) :
        /\ Dispatched(t) /\ LastDispatched(t)
        /\ Cardinality(TasksOf(t)) = 2
        /\ ~UniqueNames(t)
        /\ Len(chatWebView.modelNames) = 1
        /\ renderModelResponse(chatWebView, chatWebView.modelNames[1]) = TypingBlock

\* ----------------------------------------------------------------- C24
\* C24: a name that enters the list of names, by the registration of a
\* dispatch or by an update, is visible, whatever went before.
C24_DefaultVisible ==
    [][/\ Len(tasks') > Len(tasks) =>
             \A modelName \in NewNames : modelName \notin chatWebView'.hiddenModels
       /\ \A i \in 1..Len(chatWebView'.modelNames) :
             chatWebView'.modelNames[i] \notin ListedNames =>
                chatWebView'.modelNames[i] \notin chatWebView'.hiddenModels]_vars

\* ----------------------------------------------------------------- C25
\* Requests j and k of one turn have the same panel name.
SameNamed(j, k) ==
    /\ j /= k
    /\ tasks[j].turn = tasks[k].turn
    /\ tasks[j].modelName = tasks[k].modelName

\* The turn that dispatched last issued a request for each of its models (six
\* at most), and each of their names is listed once.
OneSlotPerName ==
    \A t \in 1..Len(turns) :
        (Dispatched(t) /\ LastDispatched(t)) =>
            /\ Cardinality(TasksOf(t)) = Min(Len(turns[t].selectedModels), MaxModels)
            /\ \A k \in TasksOf(t) :
                  /\ tasks[k].sent = turns[t].userMessageText
                  /\ Cardinality({i \in 1..Len(chatWebView.modelNames) :
                                     chatWebView.modelNames[i] = tasks[k].modelName}) = 1

\* A step that stores the update of a request stores that request's text in
\* the slot of its name, whatever a same-named request had put there.
OverwriteStep ==
    (mq /= <<>> /\ Head(mq).type = "set" /\ mq' = Tail(mq)) =>
        LET k == Head(mq).task
        IN /\ Head(mq).name = tasks[k].modelName
           /\ chatWebView'.responses[tasks[k].modelName] = formatMarkdown(Head(mq).text)
           /\ chatWebView'.modelNames = chatWebView.modelNames

\* C25: two targets of one turn with the same display name both get their
\* request, the panel has one slot for the name, and the slot holds the text of
\* whichever same-named update was applied last.
C25_DuplicateNames == []OneSlotPerName /\ [][OverwriteStep]_vars

\* Two same-named requests both streamed a text; the slot holds the one of the
\* second, the text of the first is gone.
C25_Witness ==
    \E j, k \in 1..Len(tasks) :
        /\ SameNamed(j, k)
        /\ LastDispatched(tasks[k].turn)
        /\ mq = <<>>
        /\ tasks[j].responseText /= <<>>
        /\ tasks[k].responseText /= <<>>
        /\ tasks[j].responseText /= tasks[k].responseText
        /\ Len(chatWebView.modelNames) = 1
        /\ chatWebView.responses[tasks[k].modelName] = marked(tasks[k].responseText)

\* ----------------------------------------------------------------- C29
\* The failure carries no message: none at all, or the empty one of an Error
\* made without a message.
NoMessage(error) == error.message = Null \/ error.message = <<>>

HasMessage(error, pattern) == ~NoMessage(error) /\ Includes(error.message, pattern)

\* C29: getModelErrorMessage answers every failure, in this order: a message
\* with "Model is not supported" gives the first compatibility text; else the
\* code "model_not_supported" gives the second; else a message with "Request
\* Failed: 400" gives the request-error text; else "Error: " and the message,
\* "Unknown error occurred" standing for a message that is not there.
C29_ErrorClassification ==
    (call.fn = "getModelErrorMessage" /\ call.done) =>
        LET error == call.arg
        IN call.result =
              IF HasMessage(error, NotSupportedMessage)
              THEN CompatibilityText1
              ELSE IF error.code = NotSupportedCode
              THEN CompatibilityText2
              ELSE IF HasMessage(error, Failed400Message)
              THEN RequestErrorText
              ELSE IF NoMessage(error)
              THEN <<"Error: ", "Unknown error occurred">>
              ELSE <<"Error: ">> \o error.message

\* A failure with the 400 message and the code model_not_supported: the code
\* is looked at first.
C29_Witness ==
    /\ call.fn = "getModelErrorMessage"
    /\ call.done
    /\ call.arg.code = NotSupportedCode
    /\ HasMessage(call.arg, Failed400Message)
    /\ ~HasMessage(call.arg, NotSupportedMessage)
    /\ call.result = CompatibilityText2

\* ----------------------------------------------------------------- C28
\* A load has just returned.
Loaded == call.fn = "storage" /\ call.op = "load"

\* C28: a load that follows a save(S) returns S, the same identifiers in the
\* same order, when the write of the save took place and the file can be read;
\* a load returns the empty list when nothing was saved, when the file cannot
\* be read and when its text is not a selection; no call fails. (A save whose
\* write throws is reported and leaves the file for the next load as it was.)
C28_SelectionRoundTrip ==
    /\ Loaded =>
          call.result =
              IF call.readThrew THEN <<>>
              ELSE IF call.written THEN call.content
              ELSE IF call.initial.state = "ok" THEN call.initial.selectedModels
              ELSE <<>>
    /\ (Loaded /\ call.written /\ ~call.writeThrew /\ ~call.readThrew) =>
          call.result = call.arg
    /\ (call.fn = "storage" /\ call.op = "save") => call.errorShown = call.writeThrew

\* Two identifiers with a quote, a bracket, a backslash and a comma were saved
\* and loaded back in their order.
C28_Witness ==
    /\ Loaded
    /\ ~call.writeThrew /\ ~call.readThrew
    /\ call.arg = << <<"\\", "n", ",">>, <<"a", "\"", "]">> >>
    /\ call.result = call.arg

\* ----------------------------------------------------------------- C30
\* What the claim has a message do to the panel.
InboundEffect(v, message) ==
    CASE message.command = "clearChat" -> clearChat(v)
      [] message.command = "toggleModelVisibility" ->
            toggleModelVisibility(v, message.modelName, message.isVisible)
      [] OTHER -> v

\* C30: a clearChat message does what clearChat does, a toggleModelVisibility
\* message what toggleModelVisibility(name, visible) does, and an
\* openModelSelection message, a message with another command and one without
\* a command leave the panel's state as it is.
C30_InboundMessages ==
    /\ [](\A message \in MessagesFor(chatWebView) :
             ReceiveMessage(chatWebView, message) = InboundEffect(chatWebView, message))
    /\ [][\A message \in MessagesFor(chatWebView) :
             OnDidReceiveMessage(message) =>
                 chatWebView' = InboundEffect(chatWebView, message)]_vars
    /\ [][call /= call' => chatWebView' = chatWebView]_vars
    /\ [][storageFile /= storageFile' => chatWebView' = chatWebView]_vars

\* The selection dialog was opened from a panel with two names, one of them
\* hidden, and a selection was saved from it: the panel is as it was.
C30_Witness ==
    /\ call.fn = "selectModels"
    /\ storageFile /= FileAbsent
    /\ chatWebView.hiddenModels /= {}
    /\ Len(chatWebView.modelNames) = 2

\* ----------------------------------------------------------------- C26
\* C26: when every backend ends or fails its stream in the end, a turn whose
\* requests were dispatched completes in the end, whatever mix of successes
\* and failures its requests meet.
C26_TurnCompletes ==
    \A t \in 1..(LiveEvents + 1) :
        (t <= Len(turns) /\ turns[t].pc = "join")
            ~> (t <= Len(turns) /\ turns[t].pc = "returned")

\* A turn completed with one request that failed and one that succeeded.
C26_Witness ==
    \E t \in 1..Len(turns) :
        /\ turns[t].pc = "returned"
        /\ \A k \in TasksOf(t) : Settled(k)
        /\ \E j, k \in TasksOf(t) :
              /\ tasks[j].failed /\ ~tasks[j].error.nullish
              /\ ~tasks[k].failed /\ tasks[k].responseText /= <<>>

\* ----------------------------------------------------------------- C27
\* Request k has not settled and nothing has cancelled its turn: its backend
\* may stay silent for ever.
MayHang(k) == ~Settled(k) /\ ~turns[tasks[k].turn].cancelled

\* C27: there is no timeout. While a request whose backend stays silent has
\* not settled, and its turn is not cancelled, the turn does not complete; the
\* other requests of the turn go on to their final texts meanwhile.
C27_HungTargetBlocksTurn ==
    \A k \in 1..Len(tasks) :
        MayHang(k) => turns[tasks[k].turn].pc = "join"

\* ----------------------------------------------------------------- C31
\* The text request k ended with: its error string or its complete answer.
FinalText(k) ==
    IF tasks[k].failed THEN getModelErrorMessage(tasks[k].error)
    ELSE tasks[k].responseText

\* An updateModelResponse call of turn t has not stored its text yet.
UpdatePending(t) ==
    \E i \in 1..Len(mq) : mq[i].type \in {"format", "set"} /\ mq[i].turn = t

\* C31 as stated: once the handler of a dispatched turn has returned, every
\* request of the turn has settled and none of the turn's panel updates is
\* still waiting to be stored; in an undisturbed turn every target's slot
\* holds that target's final text.
C31_UpdatesAppliedAtReturn ==
    \A t \in 1..Len(turns) :
        (Dispatched(t) /\ turns[t].pc = "returned") =>
            /\ ~UpdatePending(t)
            /\ \A k \in TasksOf(t) : Settled(k)
            /\ Undisturbed(t) =>
                  \A k \in TasksOf(t) :
                      SrcOf(chatWebView, tasks[k].modelName) = FinalText(k)

\* ----------------------------------------------------------------- C32
\* The turn that reset the panel last: the one of the newest request.
CurrentTurn == tasks[Len(tasks)].turn

\* The panel names of the first k requests that belong to turn t, in the order
\* of dispatch, each name once.
RECURSIVE NamesUpTo(_, _)
NamesUpTo(t, k) ==
    IF k = 0 THEN <<>>
    ELSE IF tasks[k].turn = t
    THEN PushName(NamesUpTo(t, k - 1), tasks[k].modelName)
    ELSE NamesUpTo(t, k - 1)

\* C32 as stated: from the reset of a turn to the next reset, the panel lists
\* exactly the names of that turn's requests in the order of dispatch, whatever
\* the order of the answers and whatever an earlier turn's request still
\* sends, and every name with a stored text is listed.
C32_NameListIsCurrentTurn ==
    tasks /= <<>> =>
        /\ chatWebView.modelNames = NamesUpTo(CurrentTurn, Len(tasks))
        /\ \A name \in DOMAIN chatWebView.responses :
              \E i \in 1..Len(chatWebView.modelNames) : chatWebView.modelNames[i] = name

\* ----------------------------------------------------------------- C33
\* Request k consumed its stream to the end without a failure.
RanToEnd(k) == tasks[k].pc = "fulfilled" /\ ~tasks[k].failed

\* C33: in every state lastModelResponse is null (nothing stored yet) or the
\* complete text of a request whose stream ran to its end without failing;
\* the text so far of a running stream, or of one that failed, is never it.
C33_OnlyCompleteAnswers ==
    \/ lastModelResponse = Null
    \/ \E k \in 1..Len(tasks) :
          RanToEnd(k) /\ tasks[k].responseText = lastModelResponse

\* C33 witness: the answer of a completed request is stored, and a later
\* request that had received a fragment failed in mid-stream.
C33_Witness ==
    \E j, k \in 1..Len(tasks) :
        /\ j < k
        /\ RanToEnd(j)
        /\ tasks[j].responseText /= <<>>
        /\ tasks[j].responseText = lastModelResponse
        /\ tasks[k].failed
        /\ tasks[k].fragments > 0
        /\ tasks[k].responseText /= <<>>
        /\ tasks[k].responseText /= lastModelResponse

\* ----------------------------------------------------------------- C34
\* C34 as stated: the "Processing your request using n AI model(s)" message of
\* a dispatched turn names the number of requests the turn issued, also when
\* more than 6 models were selected.
C34_CountIsDispatched ==
    \A t \in 1..Len(turns) :
        Dispatched(t) =>
            turns[t].markdown[1] = ProcessingMarkdown(Cardinality(TasksOf(t)))

\* ----------------------------------------------------------------- C35
\* C35: whatever turns opened the panel and however often the user closed it,
\* at most one panel is live and this.panel refers to it; the live panel has
\* exactly one message listener (a createOrShowWebview on a live panel adds
\* none, a panel created after a disposal gets its own); and the flag
\* messageListenerRegistered is set only while a panel exists.
C35_PanelLifecycle ==
    /\ chatWebView.livePanels \in {0, 1}
    /\ chatWebView.panel <=> chatWebView.livePanels = 1
    /\ chatWebView.listeners = (IF chatWebView.panel THEN 1 ELSE 0)
    /\ chatWebView.messageListenerRegistered => chatWebView.panel

\* C35 witness: the second panel of the session is live, created by the second
\* turn after the first turn's panel was disposed, and has its one listener.
C35_Witness ==
    /\ chatWebView.created = 2
    /\ chatWebView.livePanels = 1
    /\ chatWebView.listeners = 1
    /\ Len(turns) = 2
    /\ Dispatched(2)

\* ----------------------------------------------------------------- C36
\* What the ChatWebView stores apart from its panel.
SinkState(v) ==
    [modelNames |-> v.modelNames, responses |-> v.responses,
     hiddenModels |-> v.hiddenModels, lastUserMessage |-> v.lastUserMessage]

\* The step disposes the panel.
DisposeStep == chatWebView.panel /\ ~chatWebView'.panel

\* The step is the continuation of an updateModelResponse call that stores
\* its text, taken while no panel exists.
StoreWithoutPanel == mq /= <<>> /\ Head(mq).type = "set" /\ ~chatWebView.panel

\* C36: a disposal leaves the names, the stored texts, the hidden set and the
\* user's message as they are; an update whose text is stored while no panel
\* exists is stored all the same, for a listed name; and a panel that exists,
\* also one created after a disposal, shows the page of the current fields
\* once the pending updates are stored.
C36_SinkIndependentOfPanel ==
    /\ [](chatWebView.panel /\ mq = <<>> =>
              chatWebView.html = getWebviewContent(chatWebView))
    /\ [][/\ DisposeStep => SinkState(chatWebView') = SinkState(chatWebView)
          /\ StoreWithoutPanel =>
                /\ Head(mq).name \in DOMAIN chatWebView'.responses
                /\ chatWebView'.responses[Head(mq).name] = formatMarkdown(Head(mq).text)
                /\ \E i \in 1..Len(chatWebView'.modelNames) :
                      chatWebView'.modelNames[i] = Head(mq).name]_vars

\* C36 witness: the panel of a running turn was disposed, and the text a
\* request received afterwards is stored although no panel exists.
C36_Witness ==
    /\ ~chatWebView.panel
    /\ chatWebView.created = 1
    /\ mq = <<>>
    /\ \E k \in 1..Len(tasks) :
          /\ tasks[k].responseText /= <<>>
          /\ tasks[k].modelName \in DOMAIN chatWebView.responses
          /\ chatWebView.responses[tasks[k].modelName] = marked(tasks[k].responseText)
          /\ chatWebView.lastUserMessage = turns[tasks[k].turn].prompt

\* ----------------------------------------------------------------- C37
OriginalSlot(document) == Slot(document, OriginalHeading, LiteHeading)

\* enhancePromptWithBothTemplates was called in this run of the command (there
\* was a text to enhance) and has returned without a default model:
\* initializeDefaultModel came back false.
ReturnedWithoutModel ==
    /\ call.fn = "enhance"
    /\ call.pc \in {"show", "finally", "done"}
    /\ ~call.warning
    /\ ~call.defaultModel

\* C37: when the default model cannot be initialized (the host has no model,
\* or selectChatModels throws), enhancePromptWithBothTemplates sends no
\* request and returns, without throwing, a comparison document whose
\* original, lite and pro slots each hold the original prompt.
C37_NoModelEnhancement ==
    ReturnedWithoutModel =>
        /\ call.lite = IdleEnhancement
        /\ call.pro = IdleEnhancement
        /\ call.result /= call.textToEnhance
        /\ OriginalSlot(call.result) = call.textToEnhance
        /\ LiteSlot(call.result) = call.textToEnhance
        /\ ProSlot(call.result) = call.textToEnhance
        /\ call.pc = "show" => ~call.errorMessage

\* C37 witness: the host has no model, and the document with the prompt "fix"
\* in its three slots was shown.
C37_Witness ==
    /\ ReturnedWithoutModel
    /\ hostModels = <<>>
    /\ call.pc = "done"
    /\ call.textToEnhance = <<"f", "i", "x">>
    /\ call.shown = call.result
    /\ ProSlot(call.shown) = <<"f", "i", "x">>

\* ----------------------------------------------------------------- C38
\* handle() has returned.
Handled == call.fn = "enhance" /\ call.pc = "done"

SelectionMade == call.fn \in {"selectModels", "none"} /\ call.done /\ ~call.writeThrew

\* The identifiers of a list of model configurations.
IdsOf(aiModels) == [i \in 1..Len(aiModels) |-> aiModels[i].id]

\* C39: once the user has changed the selection in the dialog, the stored
\* selection is the selection as last changed, while the dialog is open and
\* after it was accepted or dismissed; and a chat turn begun after the change
\* takes its models from that selection (the defaults when it is empty).
C39_SelectionPersistsAtOnce ==
    SelectionMade =>
        /\ loadSelectedModels(storageFile) = call.result
        /\ \A t \in 1..Len(turns) :
              t > call.turnsBefore =>
                  /\ turns[t].aiModels = getAIModels(storageFile)
                  /\ call.result /= <<>> => IdsOf(turns[t].aiModels) = call.result
                  /\ call.result = <<>> => turns[t].aiModels = DEFAULT_AI_MODELS

\* C39 witness: the selection was changed to gemini alone, the dialog was
\* closed, and the next turn was dispatched to Gemini and nothing else.
C39_Witness ==
    /\ SelectionMade
    /\ call.fn = "none"
    /\ call.result = <<GeminiId>>
    /\ Len(turns) = 2
    /\ call.turnsBefore = 1
    /\ Dispatched(2)
    /\ \A k \in TasksOf(2) : tasks[k].model.id = GeminiId
    /\ Cardinality(TasksOf(1)) = 2

=============================================================================
